---------------------------- MODULE Spec2Model ----------------------------
(***************************************************************************)
(* State-machine models of parts of gyselalibxx:                           *)
(*   - OnionPatchLocator (multipatch/connectivity/onion_patch_locator.hpp)  *)
(*   - the advection test harness main()                                   *)
(*   - the neutrals executable main() (Krook operator set-up)              *)
(*   - SingleModePerturbInitialization::operator()                         *)
(*   - trapezoid_quadrature_coefficients_1d                                *)
(* Each part has its own variables, its own Init/Next and its own          *)
(* specification; the variables of the other parts stay at their initial   *)
(* (idle) values.                                                          *)
(***************************************************************************)
EXTENDS Integers, Sequences, FiniteSets, TLC

VARIABLES
    \* ---- OnionPatchLocator ----
    n_patches,        \* number of patches (template parameter pack size)
    r_min,            \* set_and_check_radii: r_min[i], front radius of patch i
    r_max,            \* set_and_check_radii: r_max[i], back radius of patch i
    m_radii,          \* the n_patches + 1 boundary radii (empty before construction)
    loc_pc,           \* "construct", "threw", "ready", "loop", "returned"
    loc_exception,    \* what the constructor threw ("" if nothing)
    r,                \* operator(): radius of the queried coordinate
    patch_index_min,  \* operator(): lower bound of the dichotomy
    patch_index_max,  \* operator(): upper bound of the dichotomy
    loc_iter,         \* operator(): number of loop iterations started (capped)
    loc_result,       \* operator(): returned patch index
    \* ---- advection test harness main() ----
    adv_argv,         \* argv[0..argc-1] (one-based here)
    adv_config,       \* content of the configuration file named on the command line
    adv_pc,           \* position in main()
    conf_voicexx,     \* "uninit", "parsed" or "destroyed"
    adv_cerr,         \* lines written to std::cerr
    adv_status,       \* "running", "EXIT_SUCCESS", "EXIT_FAILURE" or "crash"
    adv_fs,           \* files and directories created so far
    adv_conf_reads,   \* configuration keys looked up so far
    save_curves,      \* value read from .Output.save_curves
    save_feet,        \* value read from .Output.save_feet
    adv_simulated,    \* simulate() has been called
    \* ---- neutrals executable main() ----
    neu_conf,         \* conf_voicexx: the Krook list, enable_inter, nbiter
    neu_pc,           \* position in main()
    ik,               \* index of the Krook entry the loop is at (zero-based)
    str2rhstype,      \* the function-static map from type names to RhsType
    krook_source_constant_vector,
    krook_source_adaptive_vector,
    rhs_operators,    \* references to the right-hand-side operators, in order
    neu_exception,    \* what() of the exception that left main ("" if none)
    neu_steps,        \* predictor-corrector iterations run so far
    \* ---- SingleModePerturbInitialization ----
    m_init_perturb_mode,       \* mode number of each species
    m_init_perturb_amplitude,  \* amplitude of each species
    maxw_values,      \* m_species_info.maxw_values(): [species][iv]
    perturbation,     \* operator(): the local field perturbation(ix)
    allfdistribu,     \* the distribution function [species][ix][iv]
    pert_isp,         \* index of the outer species loop (zero-based)
    pert_pc,          \* "loop" or "returned"
    \* ---- trapezoid_quadrature_coefficients_1d ----
    quad_coords,      \* coordinates of the points of idx_range
    quad_periodic,    \* Grid1D::continuous_dimension_type::PERIODIC
    quad_wrap,        \* periodic axis: period minus (last - first coordinate)
    coefficients,     \* the weights, "uninit" where never written
    quad_pc,          \* "interior", "bounds" or "returned"
    \* ---- Matrix_Corner_Block ----
    mat_n,            \* Matrix::n, the size of the system
    mat_k,            \* k, the size of the trailing dense block
    mat_A,            \* the matrix the caller fills in (zero-based rows, columns)
    mat_b,            \* the right-hand side the caller hands to solve_inplace
    mat_cursor,       \* number of set_element calls made so far (row-major)
    q_block,          \* the entries of the inner matrix, (n - k) x (n - k)
    delta,            \* the entries of delta, k x k
    Abm_1_gamma,      \* mdspan of extents (k, nb)
    lambda,           \* mdspan of extents (nb, k)
    bx,               \* the vector solve_inplace works on
    \* "fill", "factorize", "solve_gamma", "calc_delta", "factorize_delta",
    \* "factorized", "solved" or "singular"
    mat_pc,
    mat_last,         \* the last get_element / set_element call and its outcome
    \* ---- Block (storage ownership) ----
    blk_live,         \* which Block objects are within their lifetime
    blk_data,         \* raw_view().data() of each Block object (0 is nullptr)
    heap_allocated,   \* buffers obtained from operator new so far
    heap_releases,    \* number of operator delete calls on each buffer (capped)
    view_move_nulls,  \* whether moving a BlockView resets the moved-from pointer
    \* ---- Block deepcopy (tests/block.cpp) ----
    bc_test,          \* which test: "X", "XVx" or "reordering"
    bc_nx,            \* number of points of the domain along X
    bc_nvx,           \* number of points of the domain along Vx
    block_raw,        \* storage of block, by linear offset
    block2_raw,       \* storage of block2 / block_reordered, by linear offset
    bc_cursor,        \* number of elements of block filled so far
    bc_pc,            \* "fill", "deepcopy" or "done"
    \* ---- FftPoissonSolver::operator() ----
    fps_n,            \* number of points of dom_x (and of dom_fx)
    fps_nsp,          \* number of species of fdistribu
    fps_dens,         \* integrate(...) of fdistribu[isp][ix], by species and point
    rho,              \* right-hand side of the Poisson equation, by point
    complex_Phi_fx,   \* Fourier coefficients, by index of dom_fx
    it_freq,          \* the iterator of the loop over dom_fx (an index)
    electric_potential,  \* the result, by point
    fps_pc,           \* "rho", "fft", "front", "loop" or "returned"
    \* ---- TEST(Masks, Ordering) ----
    mask_size,        \* gridx.size()
    mask_periodic,    \* PERIODIC_RDIMX
    mask_type,        \* "Normal" or "Inverted"
    mask_normalized,  \* last argument of mask_tanh
    mask,             \* the mask being built, by index (zero-based)
    mask_ix,          \* index of the point mask_tanh is at
    mask_integral,    \* integrate_x(mask)
    mask_pc,          \* "tanh", "normalize", "integrate" or "done"
    \* ---- 5D collision test main() ----
    tc_file,          \* content of the restart file that is read
    tc_conf,          \* conf_gyselax: .Algorithm.nbiter and .Algorithm.deltat
    tc_iter_start,    \* iter_start
    tc_alias,         \* the device mirror of a host field is the host field itself
    tc_pc,            \* position in main()
    tc_extents,       \* the *_extents vectors (size 1, zero until read)
    tc_vectors,       \* the std::vectors grid_tor1 ... masses
    tc_views,         \* field_species_host, field_charges_host, field_masses_host
    tc_moments,       \* density_torCS_host, temperature_torCS_host, Upar_torCS_host
    allfdistribu_host,  \* the host distribution function
    allfdistribu_dev,   \* the device distribution function (allfdistribu)
    time_saved,       \* "uninit" or a time
    iter_saved,       \* "none" or the iteration number that is written
    tc_nbiter,        \* nbiter as read at line 178 ("unread" before)
    tc_deltat,        \* deltat as read at line 177 ("unread" before)
    tc_collisions,    \* number of calls of collision_operator
    tc_events,        \* the PDI events triggered so far, with what they carry
    \* ---- main() of the executables: process-wide resources ----
    lc_exe,           \* which executable runs
    lc_nbiter,        \* the configured number of iterations
    lc_iter,          \* iterations of the simulation done
    lc_pc,            \* index of the next statement of Program(lc_exe)
    lc_log,           \* the initialisations and teardowns done, in order
    \* ---- SplineBuilder2D::operator() ----
    sb_bc,            \* BcXmin1, BcXmax1, BcXmin2, BcXmax2
    sb_degree,        \* degree of the basis of dimension 1 and of dimension 2
    sb_ncells,        \* number of cells of dimension 1 and of dimension 2
    sb_args,          \* the optional derivative arguments that have a value
    sb_pc,            \* position in operator()
    sb_i,             \* loop counter of the pass that is running
    sb_writes,        \* per dimension-2 index: writes of the first pass
    sb_spline,        \* the 2D coefficient array, by <<index 1, index 2>>
    neu_capacity,     \* capacity() of the two Krook vectors
    neu_buffer,       \* per Krook vector: which allocation holds its elements
    neu_target,       \* per entry of rhs_operators: the allocation it refers to
    kn_case,          \* the function that runs and its arguments
    kn_kernel,        \* number, in issue order, of the kernel that is running
    kn_pending,       \* iterations of that kernel that have not run yet
    kn_mem,           \* the device arrays, by element
    kn_log,           \* every access made: kernel, iteration, element, mode
    kn_pc,            \* "running" or "returned"
    sv_call,          \* the solve that runs: function, n, k, columns of bx
    sv_stage,         \* which statement of the solve is running
    sv_i,             \* counter of its outer loop
    sv_j,             \* counter of its inner loop
    sv_access,        \* the elements the last step indexed
    sv_pc,            \* "running", "returned" or "out of bounds"
    dio_dt,           \* .Time.delta_t, in quarters of a time unit
    dio_final_T,      \* .Time.final_T, in quarters of a time unit
    iter_nb,          \* the iteration count handed to the predictor-corrector
    dio_iter,         \* iterations the predictor-corrector has run
    dio_pc            \* position in main()

locVars == <<n_patches, r_min, r_max, m_radii, loc_pc, loc_exception, r,
             patch_index_min, patch_index_max, loc_iter, loc_result>>

advVars == <<adv_argv, adv_config, adv_pc, conf_voicexx, adv_cerr, adv_status,
             adv_fs, adv_conf_reads, save_curves, save_feet, adv_simulated>>

neuVars == <<neu_conf, neu_pc, ik, str2rhstype, krook_source_constant_vector,
             krook_source_adaptive_vector, rhs_operators, neu_exception, neu_steps,
             neu_capacity, neu_buffer, neu_target>>

pertVars == <<m_init_perturb_mode, m_init_perturb_amplitude, maxw_values,
              perturbation, allfdistribu, pert_isp, pert_pc>>

quadVars == <<quad_coords, quad_periodic, quad_wrap, coefficients, quad_pc>>

matVars == <<mat_n, mat_k, mat_A, mat_b, mat_cursor, q_block, delta,
             Abm_1_gamma, lambda, bx, mat_pc, mat_last>>

blkVars == <<blk_live, blk_data, heap_allocated, heap_releases, view_move_nulls>>

bcVars == <<bc_test, bc_nx, bc_nvx, block_raw, block2_raw, bc_cursor, bc_pc>>

fpsVars == <<fps_n, fps_nsp, fps_dens, rho, complex_Phi_fx, it_freq,
             electric_potential, fps_pc>>

maskVars == <<mask_size, mask_periodic, mask_type, mask_normalized, mask,
              mask_ix, mask_integral, mask_pc>>

tcVars == <<tc_file, tc_conf, tc_iter_start, tc_alias, tc_pc, tc_extents,
            tc_vectors, tc_views, tc_moments, allfdistribu_host,
            allfdistribu_dev, time_saved, iter_saved, tc_nbiter, tc_deltat,
            tc_collisions, tc_events>>

lcVars == <<lc_exe, lc_nbiter, lc_iter, lc_pc, lc_log>>

sbVars == <<sb_bc, sb_degree, sb_ncells, sb_args, sb_pc, sb_i, sb_writes,
            sb_spline>>

knVars == <<kn_case, kn_kernel, kn_pending, kn_mem, kn_log, kn_pc>>

svVars == <<sv_call, sv_stage, sv_i, sv_j, sv_access, sv_pc>>

dioVars == <<dio_dt, dio_final_T, iter_nb, dio_iter, dio_pc>>

vars == <<locVars, advVars, neuVars, pertVars, quadVars, matVars, blkVars,
          bcVars, fpsVars, maskVars, tcVars, lcVars, sbVars, knVars, svVars,
          dioVars>>

\* the variables each part leaves alone
notLoc == <<advVars, neuVars, pertVars, quadVars, matVars, blkVars, bcVars,
            fpsVars, maskVars, tcVars, lcVars, sbVars, knVars, svVars,
            dioVars>>
notAdv == <<locVars, neuVars, pertVars, quadVars, matVars, blkVars, bcVars,
            fpsVars, maskVars, tcVars, lcVars, sbVars, knVars, svVars,
            dioVars>>
notNeu == <<locVars, advVars, pertVars, quadVars, matVars, blkVars, bcVars,
            fpsVars, maskVars, tcVars, lcVars, sbVars, knVars, svVars,
            dioVars>>
notPert == <<locVars, advVars, neuVars, quadVars, matVars, blkVars, bcVars,
             fpsVars, maskVars, tcVars, lcVars, sbVars, knVars, svVars,
             dioVars>>
notQuad == <<locVars, advVars, neuVars, pertVars, matVars, blkVars, bcVars,
             fpsVars, maskVars, tcVars, lcVars, sbVars, knVars, svVars,
             dioVars>>
notMat == <<locVars, advVars, neuVars, pertVars, quadVars, blkVars, bcVars,
            fpsVars, maskVars, tcVars, lcVars, sbVars, knVars, svVars,
            dioVars>>
notBlk == <<locVars, advVars, neuVars, pertVars, quadVars, matVars, bcVars,
            fpsVars, maskVars, tcVars, lcVars, sbVars, knVars, svVars,
            dioVars>>
notBc == <<locVars, advVars, neuVars, pertVars, quadVars, matVars, blkVars,
           fpsVars, maskVars, tcVars, lcVars, sbVars, knVars, svVars,
           dioVars>>
notFps == <<locVars, advVars, neuVars, pertVars, quadVars, matVars, blkVars,
            bcVars, maskVars, tcVars, lcVars, sbVars, knVars, svVars,
            dioVars>>
notMask == <<locVars, advVars, neuVars, pertVars, quadVars, matVars, blkVars,
             bcVars, fpsVars, tcVars, lcVars, sbVars, knVars, svVars,
             dioVars>>
notTc == <<locVars, advVars, neuVars, pertVars, quadVars, matVars, blkVars,
           bcVars, fpsVars, maskVars, lcVars, sbVars, knVars, svVars,
           dioVars>>
notLc == <<locVars, advVars, neuVars, pertVars, quadVars, matVars, blkVars,
           bcVars, fpsVars, maskVars, tcVars, sbVars, knVars, svVars,
           dioVars>>
notSb == <<locVars, advVars, neuVars, pertVars, quadVars, matVars, blkVars,
           bcVars, fpsVars, maskVars, tcVars, lcVars, knVars, svVars,
           dioVars>>
notKn == <<locVars, advVars, neuVars, pertVars, quadVars, matVars, blkVars,
           bcVars, fpsVars, maskVars, tcVars, lcVars, sbVars, svVars,
           dioVars>>
notSv == <<locVars, advVars, neuVars, pertVars, quadVars, matVars, blkVars,
           bcVars, fpsVars, maskVars, tcVars, lcVars, sbVars, knVars,
           dioVars>>
notDio == <<locVars, advVars, neuVars, pertVars, quadVars, matVars, blkVars,
            bcVars, fpsVars, maskVars, tcVars, lcVars, sbVars, knVars,
            svVars>>

Abs(x) == IF x < 0 THEN -x ELSE x

(***************************************************************************)
(* OnionPatchLocator.                                                      *)
(* Radii are integers in units of 5e-15, so that the tolerance 1e-14 of    *)
(* set_and_check_radii is 2 units.  Patch indices are zero-based as in the *)
(* code; sequences are one-based, hence the "+ 1" in the accessors.        *)
(***************************************************************************)
MaxPatches == 3     \* largest number of patches explored
WidthChoices == 2   \* number of different patch widths explored
MaxIter == 4        \* cap on the recorded number of loop iterations

Tol == 2            \* 1e-14 in units of 5e-15

outside_domain == -1

NoResult == -2      \* value of loc_result before operator() has returned

\* Patch widths are larger than the tolerance (a patch holds several cells).
Widths == (Tol + 1)..(Tol + WidthChoices)
\* r_min[i + 1] - r_max[i] for adjacent patches: within and beyond the tolerance
Gaps == (-(Tol + 1))..(Tol + 1)

RECURSIVE PatchFront(_, _, _)
RECURSIVE PatchBack(_, _, _)
\* front and back radius of patch i (one-based) built from widths and gaps
PatchFront(w, g, i) == IF i = 1 THEN 1 ELSE PatchBack(w, g, i - 1) + g[i - 1]
PatchBack(w, g, i) == PatchFront(w, g, i) + w[i]

\* m_radii(j), j zero-based
Radii(j) == m_radii[j + 1]

\* line 182: the ordering test between patch i and patch i + 1 (i zero-based)
OrderingViolated_GE(rmin, rmax, i) == Abs(rmin[i + 2] - rmax[i + 1]) >= Tol
OrderingViolated(rmin, rmax, i) == Abs(rmin[i + 2] - rmax[i + 1]) > Tol

\* lines 181-186: does the loop started at index i throw?
RECURSIVE ThrowsFrom(_, _, _, _)
ThrowsFrom(rmin, rmax, n, i) ==
    IF i < n - 1
    THEN IF OrderingViolated(rmin, rmax, i) THEN TRUE
         ELSE ThrowsFrom(rmin, rmax, n, i + 1)
    ELSE FALSE

\* lines 180, 185, 187: the radii stored when nothing is thrown
RadiiHost(rmin, rmax, n) ==
    [j \in 1..(n + 1) |-> IF j = 1 THEN rmin[1] ELSE rmax[j - 1]]

\* line 138: the test that the midpoint patch holds the radius
InPatch_NoLowerBound(rq, rmin_mid, rmax_mid) == rq < rmax_mid
InPatch(rq, rmin_mid, rmax_mid) == rmin_mid <= rq /\ rq < rmax_mid

LocStart ==
    /\ n_patches \in 1..MaxPatches
    /\ \E w \in [1..n_patches -> Widths], g \in [1..(n_patches - 1) -> Gaps] :
          /\ r_min = [i \in 1..n_patches |-> PatchFront(w, g, i)]
          /\ r_max = [i \in 1..n_patches |-> PatchBack(w, g, i)]
    /\ m_radii = <<>>
    /\ loc_pc = "construct"
    /\ loc_exception = ""
    /\ r = 0
    /\ patch_index_min = 0
    /\ patch_index_max = 0
    /\ loc_iter = 0
    /\ loc_result = NoResult

\* OnionPatchLocator::OnionPatchLocator -> set_and_check_radii
set_and_check_radii ==
    /\ loc_pc = "construct"
    /\ IF ThrowsFrom(r_min, r_max, n_patches, 0)
       THEN /\ loc_pc' = "threw"
            /\ loc_exception' = "invalid_argument: The patches listed in PatchOrdering must be ordered."
            /\ UNCHANGED m_radii
       ELSE /\ loc_pc' = "ready"
            /\ m_radii' = RadiiHost(r_min, r_max, n_patches)
            /\ UNCHANGED loc_exception
    /\ UNCHANGED <<n_patches, r_min, r_max, r, patch_index_min, patch_index_max,
                   loc_iter, loc_result>>
    /\ UNCHANGED notLoc

\* operator(), lines 124-131: entry and the test against the outermost radius
LocatorCall ==
    /\ loc_pc = "ready"
    /\ \E rq \in 0..(Radii(n_patches) + 1) :
          /\ r' = rq
          /\ patch_index_min' = 0
          /\ patch_index_max' = n_patches - 1
          /\ IF rq = Radii((n_patches - 1) + 1)
             THEN /\ loc_result' = n_patches - 1
                  /\ loc_pc' = "returned"
             ELSE /\ loc_pc' = "loop"
                  /\ UNCHANGED loc_result
    /\ UNCHANGED <<n_patches, r_min, r_max, m_radii, loc_exception, loc_iter>>
    /\ UNCHANGED notLoc

\* operator(), lines 133-146: one evaluation of the loop condition and body
LocatorLoop ==
    /\ loc_pc = "loop"
    /\ IF patch_index_max >= patch_index_min
       THEN LET patch_index_mid == (patch_index_min + patch_index_max) \div 2
                rmin_mid == Radii(patch_index_mid)
                rmax_mid == Radii(patch_index_mid + 1)
            IN  /\ loc_iter' = IF loc_iter < MaxIter THEN loc_iter + 1 ELSE loc_iter
                /\ IF InPatch(r, rmin_mid, rmax_mid)
                   THEN /\ loc_result' = patch_index_mid
                        /\ loc_pc' = "returned"
                        /\ UNCHANGED <<patch_index_min, patch_index_max>>
                   ELSE IF r < rmin_mid
                   THEN /\ patch_index_max' = patch_index_mid - 1
                        /\ UNCHANGED <<patch_index_min, loc_result, loc_pc>>
                   ELSE IF rmax_mid < r
                   THEN /\ patch_index_min' = patch_index_mid + 1
                        /\ UNCHANGED <<patch_index_max, loc_result, loc_pc>>
                   ELSE \* no branch is taken: the loop runs again unchanged
                        UNCHANGED <<patch_index_min, patch_index_max,
                                    loc_result, loc_pc>>
       ELSE /\ loc_result' = outside_domain
            /\ loc_pc' = "returned"
            /\ UNCHANGED <<patch_index_min, patch_index_max, loc_iter>>
    /\ UNCHANGED <<n_patches, r_min, r_max, m_radii, loc_exception, r>>
    /\ UNCHANGED notLoc

LocNext == set_and_check_radii \/ LocatorCall \/ LocatorLoop

\* the locator when another part is running
LocIdle ==
    /\ n_patches = 1
    /\ r_min = <<1>>
    /\ r_max = <<1 + Tol + 1>>
    /\ m_radii = <<>>
    /\ loc_pc = "idle"
    /\ loc_exception = ""
    /\ r = 0
    /\ patch_index_min = 0
    /\ patch_index_max = 0
    /\ loc_iter = 0
    /\ loc_result = NoResult

(***************************************************************************)
(* The advection test harness, main().                                     *)
(* argv is one-based here: adv_argv[1] is argv[0], the program name.       *)
(***************************************************************************)
MaxArgs == 3        \* largest number of command-line arguments explored

ArgWords == {"params.yaml", "--dump-config", "out.yaml"}

\* argv[0] followed by up to MaxArgs arguments
ArgVectors ==
    UNION {[1..(k + 1) -> ArgWords \cup {"advection"}] : k \in 0..MaxArgs}

\* the compiled-in default configuration text (params.yaml.hpp)
params_yaml == "params_yaml"

\* line 77: the usage line
UsageLine(argv) == <<"usage: ", argv[1], " [--dump-config] <config_file.yml>">>

\* line 72: the file the default configuration is written to, argv[2]
DumpPath_Argv1(argv) == argv[2]
DumpPath(argv) == argv[3]

\* lines 68-79: which branch of the argument test is taken.  With argc == 3
\* and another first argument no branch body runs: control falls through to
\* line 80 with conf_voicexx never assigned.
ArgsBranch(argv) ==
    IF Len(argv) = 2 THEN "parse"
    ELSE IF Len(argv) = 3
    THEN IF argv[2] = "--dump-config" THEN "dump" ELSE "fallthrough"
    ELSE "usage"

AdvStart ==
    /\ adv_argv \in {a \in ArgVectors : a[1] = "advection"}
    /\ adv_config \in [save_curves : BOOLEAN, save_feet : BOOLEAN]
    /\ adv_pc = "args"
    /\ conf_voicexx = "uninit"
    /\ adv_cerr = <<>>
    /\ adv_status = "running"
    /\ adv_fs = {}
    /\ adv_conf_reads = {}
    /\ save_curves = FALSE
    /\ save_feet = FALSE
    /\ adv_simulated = FALSE

AdvIdle ==
    /\ adv_argv = <<"advection">>
    /\ adv_config = [save_curves |-> FALSE, save_feet |-> FALSE]
    /\ adv_pc = "idle"
    /\ conf_voicexx = "uninit"
    /\ adv_cerr = <<>>
    /\ adv_status = "running"
    /\ adv_fs = {}
    /\ adv_conf_reads = {}
    /\ save_curves = FALSE
    /\ save_feet = FALSE
    /\ adv_simulated = FALSE

\* lines 67-80: the command-line test
AdvArgs ==
    /\ adv_pc = "args"
    /\ LET b == ArgsBranch(adv_argv)
       IN  \/ /\ b = "parse"
              /\ conf_voicexx' = "parsed"
              /\ adv_pc' = "read_config"
              /\ UNCHANGED <<adv_fs, adv_cerr, adv_status>>
           \/ /\ b = "dump"
              /\ adv_fs' = adv_fs \cup {<<"file", DumpPath(adv_argv), params_yaml>>}
              /\ adv_status' = "EXIT_SUCCESS"
              /\ adv_pc' = "exit"
              /\ UNCHANGED <<conf_voicexx, adv_cerr>>
           \/ /\ b = "fallthrough"
              /\ adv_pc' = "read_config"
              /\ UNCHANGED <<conf_voicexx, adv_fs, adv_cerr, adv_status>>
           \/ /\ b = "usage"
              /\ adv_cerr' = Append(adv_cerr, UsageLine(adv_argv))
              /\ adv_status' = "EXIT_FAILURE"
              /\ adv_pc' = "exit"
              /\ UNCHANGED <<conf_voicexx, adv_fs>>
    /\ UNCHANGED <<adv_argv, adv_config, adv_conf_reads, save_curves, save_feet,
                   adv_simulated>>
    /\ UNCHANGED notAdv

\* lines 85-88: the first configuration look-ups.  Reading the tree when it
\* was never assigned is undefined: the process may die or go on with any
\* values.
AdvReadConfig ==
    /\ adv_pc = "read_config"
    /\ adv_conf_reads' = adv_conf_reads \cup
          {".Time.time_step", ".Time.final_time", ".Output.save_curves",
           ".Output.save_feet"}
    /\ \/ /\ conf_voicexx = "parsed"
          /\ save_curves' = adv_config.save_curves
          /\ save_feet' = adv_config.save_feet
          /\ adv_pc' = "mkdir"
          /\ UNCHANGED adv_status
       \/ /\ conf_voicexx = "uninit"
          /\ save_curves' \in BOOLEAN
          /\ save_feet' \in BOOLEAN
          /\ adv_pc' = "mkdir"
          /\ UNCHANGED adv_status
       \/ /\ conf_voicexx = "uninit"
          /\ adv_status' = "crash"
          /\ adv_pc' = "exit"
          /\ UNCHANGED <<save_curves, save_feet>>
    /\ UNCHANGED <<adv_argv, adv_config, conf_voicexx, adv_cerr, adv_fs,
                   adv_simulated>>
    /\ UNCHANGED notAdv

\* lines 90-95: the output directories
AdvMkdir ==
    /\ adv_pc = "mkdir"
    /\ adv_fs' = adv_fs
          \cup (IF save_curves \/ save_feet THEN {<<"dir", "output">>} ELSE {})
          \cup (IF save_curves THEN {<<"dir", "output/curves">>} ELSE {})
    /\ adv_pc' = "grid"
    /\ UNCHANGED <<adv_argv, adv_config, conf_voicexx, adv_cerr, adv_status,
                   adv_conf_reads, save_curves, save_feet, adv_simulated>>
    /\ UNCHANGED notAdv

\* lines 99-107: the grid parameters are read and the tree is destroyed
AdvGrid ==
    /\ adv_pc = "grid"
    /\ adv_conf_reads' = adv_conf_reads \cup {".SplineMesh.p_ncells", ".SplineMesh.r"}
    /\ \/ /\ conf_voicexx' = "destroyed"
          /\ adv_pc' = "r_knots"
          /\ UNCHANGED adv_status
       \/ /\ conf_voicexx = "uninit"
          /\ adv_status' = "crash"
          /\ adv_pc' = "exit"
          /\ UNCHANGED conf_voicexx
    /\ UNCHANGED <<adv_argv, adv_config, adv_cerr, adv_fs, save_curves, save_feet,
                   adv_simulated>>
    /\ UNCHANGED notAdv

\* lines 109-129: the grids are built and r_knots.txt is written
AdvRKnots ==
    /\ adv_pc = "r_knots"
    /\ adv_fs' = adv_fs \cup {<<"file", "r_knots.txt", "r_knots">>}
    /\ adv_pc' = "simulate"
    /\ UNCHANGED <<adv_argv, adv_config, conf_voicexx, adv_cerr, adv_status,
                   adv_conf_reads, save_curves, save_feet, adv_simulated>>
    /\ UNCHANGED notAdv

\* lines 135-270: operators, output folder, simulate(), return from main
AdvSimulate ==
    /\ adv_pc = "simulate"
    /\ adv_fs' = adv_fs
          \cup (IF save_curves \/ save_feet THEN {<<"dir", "key_output">>} ELSE {})
    /\ adv_simulated' = TRUE
    /\ adv_status' = "EXIT_SUCCESS"
    /\ adv_pc' = "exit"
    /\ UNCHANGED <<adv_argv, adv_config, conf_voicexx, adv_cerr, adv_conf_reads,
                   save_curves, save_feet>>
    /\ UNCHANGED notAdv

AdvNext ==
    AdvArgs \/ AdvReadConfig \/ AdvMkdir \/ AdvGrid \/ AdvRKnots \/ AdvSimulate

(***************************************************************************)
(* The neutrals executable, main(): construction of the right-hand-side    *)
(* operators and the call of the predictor-corrector.                      *)
(***************************************************************************)
MaxKrook == 2       \* largest number of entries of the Krook list explored
MaxNbIter == 1      \* largest configured nbiter explored

KrookTypeWords == {"source", "sink", "drain"}
KrookNameWords == {"constant", "adaptive", "relaxed"}

KrookEntries == [type : KrookTypeWords, name : KrookNameWords]

KrookLists == UNION {[1..k -> KrookEntries] : k \in 0..MaxKrook}

\* lines 183-184: the initial content of the static map
Str2RhsTypeInit == [w \in {"source", "sink"} |-> IF w = "source" THEN "Source" ELSE "Sink"]

\* a value-initialised RhsType, what std::map::operator[] inserts for a new key
RhsTypeValueInit == "RhsType{}"

\* line 185: std::map::operator[] -- the map after the look-up of key w
MapAfterIndex(m, w) == IF w \in DOMAIN m THEN m ELSE m @@ (w :> RhsTypeValueInit)

\* lines 187, 199, 210: the branch taken for a Krook name
KrookBranch_ElseAdaptive(krook_name) ==
    IF krook_name = "constant" THEN "constant" ELSE "adaptive"
KrookBranch(krook_name) ==
    IF krook_name = "constant" THEN "constant"
    ELSE IF krook_name = "adaptive" THEN "adaptive"
    ELSE "invalid"

\* lines 175-176: the two vectors that own the Krook operators
KrookVectors == {"krook_source_constant_vector", "krook_source_adaptive_vector"}

\* lines 188, 200: std::vector::emplace_back -- the capacities the vector may
\* have afterwards; it grows only when size() = capacity(), by a factor
\* the library chooses (one and a half or two in the libraries in use)
GrownCapacity(size, capacity) ==
    IF size < capacity THEN {capacity}
    ELSE {c \in {size + 1, size + (size \div 2), 2 * size} : c > size}

\* lines 188, 200: emplace_back moves the elements to a new allocation exactly
\* when the capacity changes
BufferAfter(buffer, capacity, grown) ==
    IF grown = capacity THEN buffer ELSE buffer + 1

\* lines 216-236: the operators that follow the Krook operators
FixedOperators_InterFirst(enable_inter) ==
    (IF enable_inter THEN <<<<"collisions_inter", 1>>>> ELSE <<>>)
    \o <<<<"rhs_kinetic_source", 1>>, <<"collisions_intra", 1>>>>
FixedOperators(enable_inter) ==
    <<<<"rhs_kinetic_source", 1>>, <<"collisions_intra", 1>>>>
    \o (IF enable_inter THEN <<<<"collisions_inter", 1>>>> ELSE <<>>)

InvalidKrookName == "Invalid krook name, allowed values are: 'constant', or 'adaptive'."

NeuStart ==
    /\ neu_conf \in [Krook : KrookLists, enable_inter : BOOLEAN, nbiter : 0..MaxNbIter]
    /\ neu_pc = "krook"
    /\ ik = 0
    /\ str2rhstype = Str2RhsTypeInit
    /\ krook_source_constant_vector = <<>>
    /\ krook_source_adaptive_vector = <<>>
    /\ rhs_operators = <<>>
    /\ neu_exception = ""
    /\ neu_steps = 0
    /\ neu_capacity = [v \in KrookVectors |-> 0]
    /\ neu_buffer = [v \in KrookVectors |-> 0]
    /\ neu_target = <<>>

NeuIdle ==
    /\ neu_conf = [Krook |-> <<>>, enable_inter |-> FALSE, nbiter |-> 0]
    /\ neu_pc = "idle"
    /\ ik = 0
    /\ str2rhstype = Str2RhsTypeInit
    /\ krook_source_constant_vector = <<>>
    /\ krook_source_adaptive_vector = <<>>
    /\ rhs_operators = <<>>
    /\ neu_exception = ""
    /\ neu_steps = 0
    /\ neu_capacity = [v \in KrookVectors |-> 0]
    /\ neu_buffer = [v \in KrookVectors |-> 0]
    /\ neu_target = <<>>

\* lines 188-197, 200-209: emplace_back on one of the Krook vectors, then the
\* reference to its back() appended to rhs_operators
EmplaceBack(v, size) ==
    \E grown \in GrownCapacity(size, neu_capacity[v]) :
        LET buffer == BufferAfter(neu_buffer[v], neu_capacity[v], grown)
        IN  /\ neu_capacity' = [neu_capacity EXCEPT ![v] = grown]
            /\ neu_buffer' = [neu_buffer EXCEPT ![v] = buffer]
            /\ neu_target' = Append(neu_target, buffer)

\* lines 178-214: one turn of the Krook loop, or its end
NeuKrook ==
    /\ neu_pc = "krook"
    /\ IF ik < Len(neu_conf.Krook)
       THEN LET conf_krook == neu_conf.Krook[ik + 1]
                map == MapAfterIndex(str2rhstype, conf_krook.type)
                type == map[conf_krook.type]
                krook_name == conf_krook.name
                op == [m_type |-> type, entry |-> ik]
            IN  /\ str2rhstype' = map
                /\ \/ /\ KrookBranch(krook_name) = "constant"
                      /\ krook_source_constant_vector' =
                            Append(krook_source_constant_vector, op)
                      /\ rhs_operators' = Append(rhs_operators,
                            <<"krook_source_constant_vector",
                              Len(krook_source_constant_vector) + 1>>)
                      /\ EmplaceBack("krook_source_constant_vector",
                                     Len(krook_source_constant_vector))
                      /\ ik' = ik + 1
                      /\ UNCHANGED <<krook_source_adaptive_vector, neu_pc,
                                     neu_exception>>
                   \/ /\ KrookBranch(krook_name) = "adaptive"
                      /\ krook_source_adaptive_vector' =
                            Append(krook_source_adaptive_vector, op)
                      /\ rhs_operators' = Append(rhs_operators,
                            <<"krook_source_adaptive_vector",
                              Len(krook_source_adaptive_vector) + 1>>)
                      /\ EmplaceBack("krook_source_adaptive_vector",
                                     Len(krook_source_adaptive_vector))
                      /\ ik' = ik + 1
                      /\ UNCHANGED <<krook_source_constant_vector, neu_pc,
                                     neu_exception>>
                   \/ /\ KrookBranch(krook_name) = "invalid"
                      /\ neu_exception' = InvalidKrookName
                      /\ neu_pc' = "threw"
                      /\ UNCHANGED <<krook_source_constant_vector,
                                     krook_source_adaptive_vector, rhs_operators, ik,
                                     neu_capacity, neu_buffer, neu_target>>
       ELSE /\ neu_pc' = "operators"
            /\ UNCHANGED <<str2rhstype, krook_source_constant_vector,
                           krook_source_adaptive_vector, rhs_operators, ik,
                           neu_exception, neu_capacity, neu_buffer, neu_target>>
    /\ UNCHANGED <<neu_conf, neu_steps>>
    /\ UNCHANGED notNeu

\* lines 216-239: kinetic source, collisions, the split right-hand-side solver
NeuOperators ==
    /\ neu_pc = "operators"
    /\ rhs_operators' = rhs_operators \o FixedOperators(neu_conf.enable_inter)
    /\ neu_target' = neu_target
          \o [i \in 1..Len(FixedOperators(neu_conf.enable_inter)) |-> 0]
    /\ neu_pc' = "predcorr"
    /\ UNCHANGED <<neu_conf, ik, str2rhstype, krook_source_constant_vector,
                   krook_source_adaptive_vector, neu_exception, neu_steps,
                   neu_capacity, neu_buffer>>
    /\ UNCHANGED notNeu

\* line 311: one iteration of the predictor-corrector, or its end
NeuPredCorr ==
    /\ neu_pc = "predcorr"
    /\ IF neu_steps < neu_conf.nbiter
       THEN /\ neu_steps' = neu_steps + 1
            /\ UNCHANGED neu_pc
       ELSE /\ neu_pc' = "exit"
            /\ UNCHANGED neu_steps
    /\ UNCHANGED <<neu_conf, ik, str2rhstype, krook_source_constant_vector,
                   krook_source_adaptive_vector, rhs_operators, neu_exception,
                   neu_capacity, neu_buffer, neu_target>>
    /\ UNCHANGED notNeu

NeuNext == NeuKrook \/ NeuOperators \/ NeuPredCorr

(***************************************************************************)
(* SingleModePerturbInitialization::operator().                            *)
(* The x grid is uniform with four points starting at 0, so that with      *)
(* Lx = |step + rlength| = 4 step the phase kx * x of point ix is          *)
(* mode * ix quarter turns and the cosine is exactly 1, 0, -1 or 0.        *)
(* Distribution values are integers in units of 1e-60, the floor value.    *)
(***************************************************************************)
MaxSpecies == 2     \* largest number of species explored

GridX == 0..3
GridVx == 0..1
Modes == {1, 2}
Amplitudes == {0, 1, 2}
MaxwChoices == {1, 3}

\* lines 35-36: the floor 1.e-60, in units of 1e-60
FloorValue == 1

\* cos of j quarter turns
CosQuarterTurns(j) == <<1, 0, -1, 0>>[(j % 4) + 1]

\* lines 53-57: perturbation(ix) for one mode and amplitude
PerturbationAt(mode, perturb_amplitude, ix) ==
    perturb_amplitude * CosQuarterTurns(mode * ix)

\* lines 33-37: the value stored for an equilibrium value and a perturbation
FdistribuVal(maxw, pert) ==
    LET fdistribu_val == maxw * (1 + pert)
    IN  IF fdistribu_val < FloorValue THEN FloorValue ELSE fdistribu_val

PertStart ==
    /\ \E nsp \in 1..MaxSpecies :
          /\ m_init_perturb_mode \in [1..nsp -> Modes]
          /\ m_init_perturb_amplitude \in [1..nsp -> Amplitudes]
          /\ \E mw \in [1..nsp -> MaxwChoices] :
                maxw_values = [s \in 1..nsp |-> [iv \in GridVx |-> mw[s] + iv]]
          /\ allfdistribu = [s \in 1..nsp |-> [ix \in GridX |-> [iv \in GridVx |-> 0]]]
    /\ perturbation = [ix \in GridX |-> 0]
    /\ pert_isp = 0
    /\ pert_pc = "loop"

PertIdle ==
    /\ m_init_perturb_mode = <<1>>
    /\ m_init_perturb_amplitude = <<0>>
    /\ maxw_values = <<[iv \in GridVx |-> 1]>>
    /\ allfdistribu = <<[ix \in GridX |-> [iv \in GridVx |-> 0]]>>
    /\ perturbation = [ix \in GridX |-> 0]
    /\ pert_isp = 0
    /\ pert_pc = "idle"

\* lines 23-43: one turn of the outer species loop (perturbation of species
\* pert_isp, then the fill over every species, x and vx), or the return
PertLoop ==
    /\ pert_pc = "loop"
    /\ IF pert_isp < Len(m_init_perturb_mode)
       THEN LET p == [ix \in GridX |->
                        PerturbationAt(m_init_perturb_mode[pert_isp + 1],
                                       m_init_perturb_amplitude[pert_isp + 1], ix)]
            IN  /\ perturbation' = p
                /\ allfdistribu' =
                      [isp \in 1..Len(m_init_perturb_mode) |->
                          [ix \in GridX |->
                              [iv \in GridVx |->
                                  FdistribuVal(maxw_values[isp][iv], p[ix])]]]
                /\ pert_isp' = pert_isp + 1
                /\ UNCHANGED pert_pc
       ELSE /\ pert_pc' = "returned"
            /\ UNCHANGED <<perturbation, allfdistribu, pert_isp>>
    /\ UNCHANGED <<m_init_perturb_mode, m_init_perturb_amplitude, maxw_values>>
    /\ UNCHANGED notPert

PertNext == PertLoop

(***************************************************************************)
(* trapezoid_quadrature_coefficients_1d.                                   *)
(* Coordinates are even integers (units of half a length unit), so that    *)
(* every product with 0.5 is exact.                                        *)
(***************************************************************************)
MaxPoints == 4      \* largest number of grid points explored

Spacings == {2, 4, 6}

RECURSIVE CoordsFrom(_, _)
\* the coordinates of a grid that starts at 0 with the spacings d
CoordsFrom(d, i) == IF i = 1 THEN 0 ELSE CoordsFrom(d, i - 1) + d[i - 1]

distance_at_left(x, i) == x[i] - x[i - 1]
distance_at_right(x, i) == x[i + 1] - x[i]

\* 0.5 * v
Half(v) == v \div 2

\* line 74: the weight of interior point i
InteriorCoefficient(x, i) == Half(distance_at_left(x, i) + distance_at_right(x, i))

\* lines 77, 82, 85: the weight of the first point
FrontCoefficient(x, periodic) ==
    LET dx_l == distance_at_left(x, Len(x))
        dx_r == distance_at_right(x, 1)
    IN  Half(dx_r) + (IF periodic THEN Half(dx_l) ELSE 0)

\* lines 76, 83, 86: the weight of the last point
BackCoefficient_Right(x, periodic) ==
    LET dx_l == distance_at_left(x, Len(x))
        dx_r == distance_at_right(x, 1)
    IN  Half(dx_r) + (IF periodic THEN Half(dx_l) ELSE 0)
BackCoefficient(x, periodic) ==
    LET dx_l == distance_at_left(x, Len(x))
        dx_r == distance_at_right(x, 1)
    IN  Half(dx_l) + (IF periodic THEN Half(dx_r) ELSE 0)

QuadStart ==
    /\ \E n \in 2..MaxPoints : \E d \in [1..(n - 1) -> Spacings] :
          /\ quad_coords = [i \in 1..n |-> CoordsFrom(d, i)]
          /\ coefficients = [i \in 1..n |-> "uninit"]
    /\ quad_periodic \in BOOLEAN
    /\ quad_wrap \in (IF quad_periodic THEN Spacings ELSE {0})
    /\ quad_pc = "interior"

QuadIdle ==
    /\ quad_coords = <<0, 2>>
    /\ coefficients = <<"uninit", "uninit">>
    /\ quad_periodic = FALSE
    /\ quad_wrap = 0
    /\ quad_pc = "idle"

\* lines 68-75: the kernel over middle_domain
QuadInterior ==
    /\ quad_pc = "interior"
    /\ coefficients' =
          [i \in 1..Len(quad_coords) |->
              IF 1 < i /\ i < Len(quad_coords)
              THEN InteriorCoefficient(quad_coords, i)
              ELSE coefficients[i]]
    /\ quad_pc' = "bounds"
    /\ UNCHANGED <<quad_coords, quad_periodic, quad_wrap>>
    /\ UNCHANGED notQuad

\* lines 76-88: the "bounds" kernel
QuadBounds ==
    /\ quad_pc = "bounds"
    /\ coefficients' =
          [i \in 1..Len(quad_coords) |->
              IF i = 1 THEN FrontCoefficient(quad_coords, quad_periodic)
              ELSE IF i = Len(quad_coords)
              THEN BackCoefficient(quad_coords, quad_periodic)
              ELSE coefficients[i]]
    /\ quad_pc' = "returned"
    /\ UNCHANGED <<quad_coords, quad_periodic, quad_wrap>>
    /\ UNCHANGED notQuad

QuadNext == QuadInterior \/ QuadBounds

(***************************************************************************)
(* Matrix_Corner_Block (vendor/matrix/src/matrix_corner_block.cpp).        *)
(* Rows and columns are zero-based as in the source.  Values are exact     *)
(* fractions <<numerator, denominator>> with a positive denominator, so    *)
(* that the result of the block elimination can be compared with the       *)
(* solution of the full system.  The inner matrices (q_block and delta)    *)
(* are not part of the sources at hand: factorize() succeeds iff the       *)
(* matrix is regular, and solve_inplace then solves with that matrix.      *)
(***************************************************************************)
MaxN == 2

\* values the caller stores in the matrix and in the right-hand side
EntryValues == {0, 1}
RhsValues == {0, 1}

nb == mat_n - mat_k

RECURSIVE Gcd(_, _)
Gcd(a, b) == IF b = 0 THEN a ELSE Gcd(b, a % b)

Frac(p, q) ==
    LET g == Gcd(Abs(p), Abs(q))
        s == IF q < 0 THEN -1 ELSE 1
    IN  <<(s * p) \div g, (s * q) \div g>>

Num(a) == <<a, 1>>
Plus(a, b) == Frac(a[1] * b[2] + b[1] * a[2], a[2] * b[2])
Minus(a, b) == Frac(a[1] * b[2] - b[1] * a[2], a[2] * b[2])
Times(a, b) == Frac(a[1] * b[1], a[2] * b[2])
Over(a, b) == Frac(a[1] * b[2], a[2] * b[1])

\* f[lo] + ... + f[hi], summed by halves
RECURSIVE FracSumRange(_, _, _)
FracSumRange(f, lo, hi) ==
    IF lo > hi THEN Num(0)
    ELSE IF lo = hi THEN Plus(Num(0), f[lo])
    ELSE LET mid == (lo + hi) \div 2
         IN  Plus(FracSumRange(f, lo, mid), FracSumRange(f, mid + 1, hi))

\* f[0] + ... + f[m - 1]
FracSum(f, m) == FracSumRange(f, 0, m - 1)

\* M without row 0 and column c (M is m x m)
Minor(M, m, c) ==
    [i \in 0..(m - 2) |-> [j \in 0..(m - 2) |->
        M[i + 1][IF j < c THEN j ELSE j + 1]]]

RECURSIVE Det(_, _)
Det(M, m) ==
    IF m = 0 THEN Num(1)
    ELSE IF m = 1 THEN M[0][0]
    ELSE FracSum([c \in 0..(m - 1) |->
                     Times(Times(Num(IF c % 2 = 0 THEN 1 ELSE -1), M[0][c]),
                           Det(Minor(M, m, c), m - 1))], m)

ReplaceColumn(M, m, c, b) ==
    [i \in 0..(m - 1) |-> [j \in 0..(m - 1) |-> IF j = c THEN b[i] ELSE M[i][j]]]

\* the solution x of M x = b for a regular m x m matrix M
DenseSolve(M, m, b) ==
    [i \in 0..(m - 1) |-> Over(Det(ReplaceColumn(M, m, i, b), m), Det(M, m))]

\* a routing in which both coupling blocks share their cells
Route_SharedCoupling(i, j) ==
    IF i < nb /\ j < nb THEN <<"q_block", i, j>>
    ELSE IF i >= nb /\ j >= nb THEN <<"delta", i - nb, j - nb>>
    ELSE IF i >= nb THEN <<"lambda", j, i - nb>>
    ELSE <<"lambda", i, j - nb>>

\* set_element / get_element: the storage cell that holds element (i, j)
Route(i, j) ==
    IF i < nb /\ j < nb THEN <<"q_block", i, j>>
    ELSE IF i >= nb /\ j >= nb THEN <<"delta", i - nb, j - nb>>
    ELSE IF i >= nb THEN <<"Abm_1_gamma", i - nb, j>>
    ELSE <<"lambda", i, j - nb>>

\* block B after B(row, col) = a
Put(B, row, col, a) == [B EXCEPT ![row][col] = a]

ZeroBlock(rows, cols) == [i \in 0..(rows - 1) |-> [j \in 0..(cols - 1) |-> Num(0)]]

MatStart ==
    /\ mat_n \in 1..MaxN
    /\ mat_k \in 0..mat_n
    /\ mat_A \in [0..(mat_n - 1) -> [0..(mat_n - 1) -> EntryValues]]
    /\ mat_b \in [0..(mat_n - 1) -> RhsValues]
    /\ mat_cursor = 0
    /\ q_block = ZeroBlock(nb, nb)
    /\ delta = ZeroBlock(mat_k, mat_k)
    /\ Abm_1_gamma = ZeroBlock(mat_k, nb)
    /\ lambda = ZeroBlock(nb, mat_k)
    /\ bx = [i \in 0..(mat_n - 1) |-> Num(mat_b[i])]
    /\ mat_pc = "fill"
    /\ mat_last = <<>>

MatIdle ==
    /\ mat_n = 0
    /\ mat_k = 0
    /\ mat_A = <<>>
    /\ mat_b = <<>>
    /\ mat_cursor = 0
    /\ q_block = <<>>
    /\ delta = <<>>
    /\ Abm_1_gamma = <<>>
    /\ lambda = <<>>
    /\ bx = <<>>
    /\ mat_pc = "idle"
    /\ mat_last = <<>>

\* one set_element(i, j, a_ij) of the caller's row-major fill (lines 60-75)
MatSetElement ==
    /\ mat_pc = "fill"
    /\ LET i == mat_cursor \div mat_n
           j == mat_cursor % mat_n
           cell == Route(i, j)
           a == Num(mat_A[i][j])
       IN  /\ q_block' = IF cell[1] = "q_block"
                         THEN Put(q_block, cell[2], cell[3], a) ELSE q_block
           /\ delta' = IF cell[1] = "delta"
                       THEN Put(delta, cell[2], cell[3], a) ELSE delta
           /\ Abm_1_gamma' = IF cell[1] = "Abm_1_gamma"
                             THEN Put(Abm_1_gamma, cell[2], cell[3], a)
                             ELSE Abm_1_gamma
           /\ lambda' = IF cell[1] = "lambda"
                        THEN Put(lambda, cell[2], cell[3], a) ELSE lambda
    /\ mat_cursor' = mat_cursor + 1
    /\ mat_pc' = IF mat_cursor + 1 = mat_n * mat_n THEN "factorize" ELSE "fill"
    /\ UNCHANGED <<mat_last, mat_n, mat_k, mat_A, mat_b, bx>>
    /\ UNCHANGED notMat

\* factorize(), line 93: q_block->factorize()
MatFactorizeQ ==
    /\ mat_pc = "factorize"
    /\ mat_pc' = IF Det(q_block, nb) = Num(0) THEN "singular" ELSE "solve_gamma"
    /\ UNCHANGED <<mat_last, mat_n, mat_k, mat_A, mat_b, mat_cursor, q_block, delta,
                   Abm_1_gamma, lambda, bx>>
    /\ UNCHANGED notMat

\* factorize(), line 94: q_block->solve_inplace_matrix(Abm_1_gamma); each of
\* the k runs of nb contiguous values is one right-hand side of the nb x nb
\* system
MatSolveGamma ==
    /\ mat_pc = "solve_gamma"
    /\ Abm_1_gamma' = [row \in 0..(mat_k - 1) |->
                          DenseSolve(q_block, nb, Abm_1_gamma[row])]
    /\ mat_pc' = "calc_delta"
    /\ UNCHANGED <<mat_last, mat_n, mat_k, mat_A, mat_b, mat_cursor, q_block, delta,
                   lambda, bx>>
    /\ UNCHANGED notMat

\* calculate_delta_to_factorize() (lines 77-89): delta(j, i) loses
\* lambda(l, i) * Abm_1_gamma(j, l) for every l
DeltaToFactorize_Added(j, i) ==
    Plus(delta[j][i],
         FracSum([l \in 0..(nb - 1) |-> Times(lambda[l][i], Abm_1_gamma[j][l])],
                 nb))

DeltaToFactorize(j, i) ==
    Minus(delta[j][i],
          FracSum([l \in 0..(nb - 1) |-> Times(lambda[l][i], Abm_1_gamma[j][l])],
                  nb))

MatCalcDelta ==
    /\ mat_pc = "calc_delta"
    /\ delta' = [j \in 0..(mat_k - 1) |-> [i \in 0..(mat_k - 1) |->
                    DeltaToFactorize(j, i)]]
    /\ mat_pc' = "factorize_delta"
    /\ UNCHANGED <<mat_last, mat_n, mat_k, mat_A, mat_b, mat_cursor, q_block,
                   Abm_1_gamma, lambda, bx>>
    /\ UNCHANGED notMat

\* factorize(), line 98: delta.factorize()
MatFactorizeDelta ==
    /\ mat_pc = "factorize_delta"
    /\ mat_pc' = IF Det(delta, mat_k) = Num(0) THEN "singular" ELSE "factorized"
    /\ UNCHANGED <<mat_last, mat_n, mat_k, mat_A, mat_b, mat_cursor, q_block, delta,
                   Abm_1_gamma, lambda, bx>>
    /\ UNCHANGED notMat

\* solve_lambda_section (lines 101-109): v(i) -= lambda(j, i) * u(j)
LambdaSection(u, v) ==
    [i \in 0..(mat_k - 1) |->
        Minus(v[i], FracSum([j \in 0..(nb - 1) |-> Times(lambda[j][i], u[j])], nb))]

\* solve_inplace, lines 144-150: u(i) -= sum over j of Abm_1_gamma(j, i) * v(j)
GammaSection(u, v) ==
    [i \in 0..(nb - 1) |->
        Minus(u[i],
              FracSum([j \in 0..(mat_k - 1) |-> Times(Abm_1_gamma[j][i], v[j])],
                      mat_k))]

\* solve_inplace(bx) (lines 132-151)
SolveInplace(b) ==
    LET u0 == [i \in 0..(nb - 1) |-> b[i]]
        v0 == [i \in 0..(mat_k - 1) |-> b[nb + i]]
        u1 == DenseSolve(q_block, nb, u0)
        v1 == LambdaSection(u1, v0)
        v2 == DenseSolve(delta, mat_k, v1)
        u2 == GammaSection(u1, v2)
    IN  [i \in 0..(mat_n - 1) |-> IF i < nb THEN u2[i] ELSE v2[i - nb]]

MatSolveInplace ==
    /\ mat_pc = "factorized"
    /\ bx' = SolveInplace(bx)
    /\ mat_pc' = "solved"
    /\ UNCHANGED <<mat_last, mat_n, mat_k, mat_A, mat_b, mat_cursor, q_block, delta,
                   Abm_1_gamma, lambda>>
    /\ UNCHANGED notMat

MatNext ==
    \/ MatSetElement
    \/ MatFactorizeQ
    \/ MatSolveGamma
    \/ MatCalcDelta
    \/ MatFactorizeDelta
    \/ MatSolveInplace

(***************************************************************************)
(* Element access of Matrix_Corner_Block before factorization: calls of    *)
(* set_element and get_element with any row and column, in a debug build   *)
(* (the assertions are compiled in).  The blocks start zeroed (lines       *)
(* 21-22; the inner matrices hold what has been stored in them, 0 before). *)
(***************************************************************************)
MaxCalls == 2

\* sizes and values the calls are made with
AccessSizes == 1..(MaxN + 1)
AccessValues == {1, 2}

\* the assertions of lines 45-48 and 62-65 hold
AssertionsHold(i, j) == i >= 0 /\ i < mat_n /\ j >= 0 /\ i < mat_n

\* the cell is inside the extents of its block
InsideBlock(cell) ==
    LET rows == CASE cell[1] = "q_block" -> nb [] cell[1] = "delta" -> mat_k
                  [] cell[1] = "Abm_1_gamma" -> mat_k [] cell[1] = "lambda" -> nb
        cols == CASE cell[1] = "q_block" -> nb [] cell[1] = "delta" -> mat_k
                  [] cell[1] = "Abm_1_gamma" -> nb [] cell[1] = "lambda" -> mat_k
    IN  cell[2] >= 0 /\ cell[2] < rows /\ cell[3] >= 0 /\ cell[3] < cols

\* what the cell holds
Stored(cell) ==
    CASE cell[1] = "q_block" -> q_block[cell[2]][cell[3]]
      [] cell[1] = "delta" -> delta[cell[2]][cell[3]]
      [] cell[1] = "Abm_1_gamma" -> Abm_1_gamma[cell[2]][cell[3]]
      [] cell[1] = "lambda" -> lambda[cell[2]][cell[3]]

\* get_element(i, j) for a row and a column inside the matrix (lines 49-57)
GetElement(i, j) == Stored(Route(i, j))

MatAccessStart ==
    /\ mat_n \in AccessSizes
    /\ mat_k \in 0..mat_n
    /\ mat_A = <<>>
    /\ mat_b = <<>>
    /\ mat_cursor = 0
    /\ q_block = ZeroBlock(nb, nb)
    /\ delta = ZeroBlock(mat_k, mat_k)
    /\ Abm_1_gamma = ZeroBlock(mat_k, nb)
    /\ lambda = ZeroBlock(nb, mat_k)
    /\ bx = <<>>
    /\ mat_pc = "access"
    /\ mat_last = [op |-> "none", i |-> 0, j |-> 0, a |-> Num(0),
                   outcome |-> "none"]

\* how a call with row i and column j ends: an assertion fails, or the
\* block access is made, inside the block or outside of it
Outcome(i, j) ==
    IF ~AssertionsHold(i, j) THEN "assertion failed"
    ELSE IF InsideBlock(Route(i, j)) THEN "done"
    ELSE "access outside the block"

\* set_element(i, j, a) (lines 60-75)
MatAccessSet ==
    /\ mat_pc = "access"
    /\ mat_cursor < MaxCalls
    /\ \E i \in (-1)..mat_n, j \in (-1)..mat_n, v \in AccessValues :
          LET cell == Route(i, j)
              a == Num(v)
              done == Outcome(i, j) = "done"
          IN  /\ q_block' = IF done /\ cell[1] = "q_block"
                            THEN Put(q_block, cell[2], cell[3], a) ELSE q_block
              /\ delta' = IF done /\ cell[1] = "delta"
                          THEN Put(delta, cell[2], cell[3], a) ELSE delta
              /\ Abm_1_gamma' = IF done /\ cell[1] = "Abm_1_gamma"
                                THEN Put(Abm_1_gamma, cell[2], cell[3], a)
                                ELSE Abm_1_gamma
              /\ lambda' = IF done /\ cell[1] = "lambda"
                           THEN Put(lambda, cell[2], cell[3], a) ELSE lambda
              /\ mat_last' = [op |-> "set", i |-> i, j |-> j, a |-> a,
                              outcome |-> Outcome(i, j)]
              /\ mat_pc' = IF done THEN "access" ELSE "stopped"
    /\ mat_cursor' = mat_cursor + 1
    /\ UNCHANGED <<mat_n, mat_k, mat_A, mat_b, bx>>
    /\ UNCHANGED notMat

\* get_element(i, j) (lines 43-58)
MatAccessGet ==
    /\ mat_pc = "access"
    /\ mat_cursor < MaxCalls
    /\ \E i \in (-1)..mat_n, j \in (-1)..mat_n :
          LET done == Outcome(i, j) = "done"
          IN  /\ mat_last' = [op |-> "get", i |-> i, j |-> j,
                              a |-> IF done THEN GetElement(i, j) ELSE Num(0),
                              outcome |-> Outcome(i, j)]
              /\ mat_pc' = IF done THEN "access" ELSE "stopped"
    /\ mat_cursor' = mat_cursor + 1
    /\ UNCHANGED <<mat_n, mat_k, mat_A, mat_b, q_block, delta, Abm_1_gamma,
                   lambda, bx>>
    /\ UNCHANGED notMat

MatAccessNext ==
    \/ MatAccessSet
    \/ MatAccessGet

(***************************************************************************)
(* Block: ownership of the storage (unnamed/part_010, class Block).        *)
(* A Block is a BlockView (pointer and domain) that allocates in its       *)
(* constructor and deletes in its destructor.  Its move constructor and    *)
(* its copy and move assignments are defaulted, so they are the            *)
(* corresponding operations of BlockView.  blockview.h is not among the    *)
(* sources: copying a view copies the pointer; for a move both possible    *)
(* behaviours (moved-from pointer kept, moved-from pointer reset) are      *)
(* covered by view_move_nulls.                                             *)
(***************************************************************************)
MaxBlocks == 2
MaxAllocs == 2

nullptr == 0
BlockIds == 1..MaxBlocks
BufferIds == 1..MaxAllocs

\* the pointer the moved-from view holds after a move
MovedFrom(p) == IF view_move_nulls THEN nullptr ELSE p

\* operator delete(p): one more release of buffer p (counted up to 2)
Release(releases, p) ==
    IF p = nullptr THEN releases
    ELSE [releases EXCEPT ![p] = IF @ < 2 THEN @ + 1 ELSE @]

BlkStart ==
    /\ blk_live = [x \in BlockIds |-> FALSE]
    /\ blk_data = [x \in BlockIds |-> nullptr]
    /\ heap_allocated = {}
    /\ heap_releases = [p \in BufferIds |-> 0]
    /\ view_move_nulls \in BOOLEAN

BlkIdle ==
    /\ blk_live = <<>>
    /\ blk_data = <<>>
    /\ heap_allocated = {}
    /\ heap_releases = <<>>
    /\ view_move_nulls = FALSE

\* Block(domain), lines 51-58: a fresh buffer from operator new
BlkConstruct(x) ==
    /\ ~blk_live[x]
    /\ \E p \in BufferIds :
        /\ p \notin heap_allocated
        /\ \A q \in BufferIds : q < p => q \in heap_allocated
        /\ heap_allocated' = heap_allocated \cup {p}
        /\ blk_data' = [blk_data EXCEPT ![x] = p]
    /\ blk_live' = [blk_live EXCEPT ![x] = TRUE]
    /\ UNCHANGED <<heap_releases, view_move_nulls>>
    /\ UNCHANGED notBlk

\* Block(Block&& other) = default, line 70
BlkMoveConstruct(x, other) ==
    /\ ~blk_live[x]
    /\ blk_live[other]
    /\ blk_data' = [blk_data EXCEPT ![x] = blk_data[other],
                                    ![other] = MovedFrom(blk_data[other])]
    /\ blk_live' = [blk_live EXCEPT ![x] = TRUE]
    /\ UNCHANGED <<heap_allocated, heap_releases, view_move_nulls>>
    /\ UNCHANGED notBlk

\* ~Block(), lines 72-77
BlkDestroy(x) ==
    /\ blk_live[x]
    /\ heap_releases' = Release(heap_releases, blk_data[x])
    /\ blk_live' = [blk_live EXCEPT ![x] = FALSE]
    /\ blk_data' = [blk_data EXCEPT ![x] = nullptr]
    /\ UNCHANGED <<heap_allocated, view_move_nulls>>
    /\ UNCHANGED notBlk

\* operator=(Block const& other) = default, line 83
BlkCopyAssign(x, other) ==
    /\ blk_live[x]
    /\ blk_live[other]
    /\ blk_data' = [blk_data EXCEPT ![x] = blk_data[other]]
    /\ UNCHANGED <<blk_live, heap_allocated, heap_releases, view_move_nulls>>
    /\ UNCHANGED notBlk

\* operator=(Block&& other) = default, line 89
BlkMoveAssign(x, other) ==
    /\ blk_live[x]
    /\ blk_live[other]
    /\ x # other
    /\ blk_data' = [blk_data EXCEPT ![x] = blk_data[other],
                                    ![other] = MovedFrom(blk_data[other])]
    /\ UNCHANGED <<blk_live, heap_allocated, heap_releases, view_move_nulls>>
    /\ UNCHANGED notBlk

\* swap(other), lines 105-110: tmp is move-constructed from other, other is
\* move-assigned from *this, *this is move-assigned from tmp, tmp is destroyed
BlkSwap(x, other) ==
    /\ blk_live[x]
    /\ blk_live[other]
    /\ x # other
    /\ LET tmp1 == blk_data[other]
           other1 == MovedFrom(blk_data[other])
           other2 == blk_data[x]
           this2 == MovedFrom(blk_data[x])
           this3 == tmp1
           tmp3 == MovedFrom(tmp1)
       IN  /\ blk_data' = [blk_data EXCEPT ![x] = this3, ![other] = other2]
           /\ heap_releases' = Release(heap_releases, tmp3)
    /\ UNCHANGED <<blk_live, heap_allocated, view_move_nulls>>
    /\ UNCHANGED notBlk

BlkNext ==
    \E x \in BlockIds :
        \/ BlkConstruct(x)
        \/ BlkDestroy(x)
        \/ \E other \in BlockIds :
            \/ BlkMoveConstruct(x, other)
            \/ BlkCopyAssign(x, other)
            \/ BlkMoveAssign(x, other)
            \/ BlkSwap(x, other)

(***************************************************************************)
(* deepcopy between Blocks (vendor/ddc/tests/block.cpp, tests deepcopy and *)
(* reordering).  A Block stores its values row-major in the order in which *)
(* it declares its dimensions.  Values are in units of 0.001.  deepcopy    *)
(* itself is declared in blockview.h, which is not among the sources; it   *)
(* is modelled as the element-wise copy that matches dimensions by tag.    *)
(***************************************************************************)
MaxExtent == 3

BcTests == {"X", "XVx", "reordering"}

\* the order in which block and the copy declare their dimensions
SrcOrder(test) == IF test = "X" THEN <<"X">> ELSE <<"X", "Vx">>
DstOrder(test) ==
    IF test = "X" THEN <<"X">>
    ELSE IF test = "XVx" THEN <<"X", "Vx">>
    ELSE <<"Vx", "X">>

BcSize == bc_nx * bc_nvx

\* linear offset of the element of coordinates (ii along X, jj along Vx) in
\* a block that declares its dimensions in the given order
Offset(order, ii, jj) ==
    IF Len(order) = 1 THEN ii
    ELSE IF order[1] = "X" THEN ii * bc_nvx + jj
    ELSE jj * bc_nx + ii

\* the coordinates along X and Vx of the element at a linear offset
CoordX(order, o) ==
    IF Len(order) = 1 THEN o
    ELSE IF order[1] = "X" THEN o \div bc_nvx
    ELSE o % bc_nx

CoordVx(order, o) ==
    IF Len(order) = 1 THEN 0
    ELSE IF order[1] = "X" THEN o % bc_nvx
    ELSE o \div bc_nx

\* the value the tests store: 1.001 * ii (line 50), 1. * ii + .001 * jj
\* (lines 72 and 95)
FillValue(test, ii, jj) == IF test = "X" THEN 1001 * ii ELSE 1000 * ii + jj

BcStart ==
    /\ bc_test \in BcTests
    /\ bc_nx \in 1..MaxExtent
    /\ bc_nvx \in IF bc_test = "X" THEN {1} ELSE 1..MaxExtent
    /\ block_raw = [o \in 0..(BcSize - 1) |-> "uninit"]
    /\ block2_raw = [o \in 0..(BcSize - 1) |-> "uninit"]
    /\ bc_cursor = 0
    /\ bc_pc = "fill"

BcIdle ==
    /\ bc_test = "X"
    /\ bc_nx = 0
    /\ bc_nvx = 0
    /\ block_raw = <<>>
    /\ block2_raw = <<>>
    /\ bc_cursor = 0
    /\ bc_pc = "idle"

\* one pass of the fill loops of the tests (lines 49-51, 70-74, 93-97)
BcFill ==
    /\ bc_pc = "fill"
    /\ LET ii == bc_cursor \div bc_nvx
           jj == bc_cursor % bc_nvx
       IN  block_raw' = [block_raw EXCEPT ![Offset(SrcOrder(bc_test), ii, jj)] =
                            FillValue(bc_test, ii, jj)]
    /\ bc_cursor' = bc_cursor + 1
    /\ bc_pc' = IF bc_cursor + 1 = BcSize THEN "deepcopy" ELSE "fill"
    /\ UNCHANGED <<bc_test, bc_nx, bc_nvx, block2_raw>>
    /\ UNCHANGED notBc

\* the element of src that deepcopy stores at linear offset o of dst
DeepcopyElement_ByPosition(o) == block_raw[o]

DeepcopyElement(o) ==
    block_raw[Offset(SrcOrder(bc_test), CoordX(DstOrder(bc_test), o),
                     CoordVx(DstOrder(bc_test), o))]

\* deepcopy(block2, block), lines 53, 76 and 102
BcDeepcopy ==
    /\ bc_pc = "deepcopy"
    /\ block2_raw' = [o \in 0..(BcSize - 1) |-> DeepcopyElement(o)]
    /\ bc_pc' = "done"
    /\ UNCHANGED <<bc_test, bc_nx, bc_nvx, block_raw, bc_cursor>>
    /\ UNCHANGED notBc

BcNext == BcFill \/ BcDeepcopy

(***************************************************************************)
(* FftPoissonSolver::operator() (src/poisson/fftpoissonsolver.cpp).        *)
(* Real values are exact fractions, complex values pairs <<re, im>> of     *)
(* fractions.  The number of points is 1, 2 or 4, so that the roots of     *)
(* unity of the discrete Fourier transform are 1, -i, -1 and i.  Lengths   *)
(* are in units of the domain length, wave numbers in units of 2*pi.  The  *)
(* transforms and the Fourier mesh are behind the interfaces               *)
(* IFourierTransform / IInverseFourierTransform, whose implementations are *)
(* not among the sources: the discrete transform with the frequencies in   *)
(* the usual order (0, 1, ..., -1) and a normalised inverse are used.      *)
(***************************************************************************)
MaxFpsSpecies == 1

FourierSizes == {1, 2, 4}
DensityValues == {0, 1}

\* m_species_info.charge()(isp); species 0 are the electrons
ielec == 0
Charge(isp) == IF isp = ielec THEN -1 ELSE 1

CZero == <<Num(0), Num(0)>>
CPlus(z, w) == <<Plus(z[1], w[1]), Plus(z[2], w[2])>>
CScale(z, a) == <<Times(z[1], a), Times(z[2], a)>>

\* z times (-i)^q
Rot(z, q) ==
    CASE q % 4 = 0 -> z
      [] q % 4 = 1 -> <<z[2], Minus(Num(0), z[1])>>
      [] q % 4 = 2 -> <<Minus(Num(0), z[1]), Minus(Num(0), z[2])>>
      [] q % 4 = 3 -> <<Minus(Num(0), z[2]), z[1]>>

\* g[0] + ... + g[m - 1]
RECURSIVE CSum(_, _)
CSum(g, m) == IF m = 0 THEN CZero ELSE CPlus(CSum(g, m - 1), g[m - 1])

\* m_fft(out, in): out[f] = sum over j of in[j] * exp(-2 i pi j f / n)
FourierTransform(x, n) ==
    [f \in 0..(n - 1) |->
        CSum([j \in 0..(n - 1) |-> Rot(<<x[j], Num(0)>>, j * f * (4 \div n))], n)]

\* m_ifft(out, in): out[j] = (1/n) sum over f of in[f] * exp(2 i pi j f / n),
\* a real field
InverseFourierTransform(c, n) ==
    [j \in 0..(n - 1) |->
        CScale(CSum([f \in 0..(n - 1) |-> Rot(c[f], 4 - ((j * f * (4 \div n)) % 4))], n),
               Frac(1, n))[1]]

\* mesh_fx.to_real(f): the frequency of index f of the Fourier mesh
Frequency(f, n) == IF 2 * f <= n THEN f ELSE f - n

\* kx * kx of line 83, in units of (2 pi)^2
KxSquared(f, n) == Num(Frequency(f, n) * Frequency(f, n))

\* lines 56-68: the charge density at point ix for the densities dens
RhoAt(dens, nsp, ix) ==
    Plus(Num(Charge(ielec)),
         FracSum([isp \in 0..(nsp - 1) |-> Num(Charge(isp) * dens[isp][ix])], nsp))

\* line 80: the value stored at dom_fx.front()
FrontValue_Kept(c) == c

FrontValue(c) == CZero

\* line 81: the index the loop starts at, given dom_fx.cbegin()
FirstDivided_Skip(cbegin) == cbegin + 3

FirstDivided(cbegin) == cbegin + 1

\* lines 80-84 as a whole: the coefficients after the solve in Fourier space
SolveFourier(c, n) ==
    [f \in 0..(n - 1) |->
        IF f = 0 THEN FrontValue(c[f])
        ELSE IF f >= FirstDivided(0)
        THEN <<Over(c[f][1], KxSquared(f, n)), Over(c[f][2], KxSquared(f, n))>>
        ELSE c[f]]

\* lines 70-89 as a whole: the potential returned for a charge density
PotentialOf(density, n) ==
    InverseFourierTransform(SolveFourier(FourierTransform(density, n), n), n)

FpsStart ==
    /\ fps_n \in FourierSizes
    /\ fps_nsp \in 1..MaxFpsSpecies
    /\ fps_dens \in [0..(fps_nsp - 1) -> [0..(fps_n - 1) -> DensityValues]]
    /\ rho = [ix \in 0..(fps_n - 1) |-> "uninit"]
    /\ complex_Phi_fx = [f \in 0..(fps_n - 1) |-> "uninit"]
    /\ it_freq = 0
    /\ electric_potential = [ix \in 0..(fps_n - 1) |-> "uninit"]
    /\ fps_pc = "rho"

FpsIdle ==
    /\ fps_n = 0
    /\ fps_nsp = 0
    /\ fps_dens = <<>>
    /\ rho = <<>>
    /\ complex_Phi_fx = <<>>
    /\ it_freq = 0
    /\ electric_potential = <<>>
    /\ fps_pc = "idle"

\* lines 52-68
FpsRho ==
    /\ fps_pc = "rho"
    /\ rho' = [ix \in 0..(fps_n - 1) |-> RhoAt(fps_dens, fps_nsp, ix)]
    /\ fps_pc' = "fft"
    /\ UNCHANGED <<fps_n, fps_nsp, fps_dens, complex_Phi_fx, it_freq,
                   electric_potential>>
    /\ UNCHANGED notFps

\* lines 70-76
FpsFft ==
    /\ fps_pc = "fft"
    /\ complex_Phi_fx' = FourierTransform(rho, fps_n)
    /\ fps_pc' = "front"
    /\ UNCHANGED <<fps_n, fps_nsp, fps_dens, rho, it_freq, electric_potential>>
    /\ UNCHANGED notFps

\* line 80 and the initialisation of the loop of line 81
FpsFront ==
    /\ fps_pc = "front"
    /\ complex_Phi_fx' = [complex_Phi_fx EXCEPT ![0] = FrontValue(@)]
    /\ it_freq' = FirstDivided(0)
    /\ fps_pc' = "loop"
    /\ UNCHANGED <<fps_n, fps_nsp, fps_dens, rho, electric_potential>>
    /\ UNCHANGED notFps

\* one pass of the loop of lines 81-84
FpsLoop ==
    /\ fps_pc = "loop"
    /\ it_freq < fps_n
    /\ complex_Phi_fx' = [complex_Phi_fx EXCEPT ![it_freq] =
                             <<Over(@[1], KxSquared(it_freq, fps_n)),
                               Over(@[2], KxSquared(it_freq, fps_n))>>]
    /\ it_freq' = it_freq + 1
    /\ UNCHANGED <<fps_n, fps_nsp, fps_dens, rho, electric_potential, fps_pc>>
    /\ UNCHANGED notFps

\* the loop ends (it_freq == dom_fx.cend()); lines 86-89
FpsIfft ==
    /\ fps_pc = "loop"
    /\ it_freq >= fps_n
    /\ electric_potential' = InverseFourierTransform(complex_Phi_fx, fps_n)
    /\ fps_pc' = "returned"
    /\ UNCHANGED <<fps_n, fps_nsp, fps_dens, rho, complex_Phi_fx, it_freq>>
    /\ UNCHANGED notFps

FpsNext == FpsRho \/ FpsFft \/ FpsFront \/ FpsLoop \/ FpsIfft

(***************************************************************************)
(* TEST(Masks, Ordering) (tests/geometryXVx/masks.cpp) with the trapezoid  *)
(* weights of trapezoid_quadrature_coefficients_1d.                        *)
(* mask_tanh is not among the sources; it is modelled from its             *)
(* description: mask(x) = 1/2 [tanh((x - x_left)/stiffness) -              *)
(* tanh((x - x_right)/stiffness)], its complement for "Inverted", divided  *)
(* by its trapezoid integral when normalisation is asked for.  The domain  *)
(* is [0, 1] as in the test, sampled uniformly.  tanh is replaced by a     *)
(* function that is exactly -1 and 1 where tanh is within 1e-10 of them    *)
(* (argument beyond 12 in absolute value), 0 at 0 and -1/2, 1/2 in         *)
(* between.  Values are exact fractions.                                   *)
(***************************************************************************)
MaxTenths == 2

\* extent = 0.25 and stiffness = 1e-2 of the test, in hundredths
ExtentPercent == 25
StiffnessPercent == 1

\* |tanh(t)| is within 1e-10 of 1 from |t| = 12 on
Saturation == 12

\* number of grid intervals the domain length is cut in
MaskCells(size, periodic) == IF periodic THEN size ELSE size - 1

\* (x - edge) / stiffness for the point of index ix and the edge at
\* edgePercent hundredths of the domain, as a fraction
TanhArgument(ix, edgePercent, size, periodic) ==
    Frac(100 * ix - edgePercent * MaskCells(size, periodic),
         StiffnessPercent * MaskCells(size, periodic))

\* the stand-in for tanh
TanhOf(t) ==
    IF t[1] >= Saturation * t[2] THEN Num(1)
    ELSE IF t[1] <= -Saturation * t[2] THEN Num(-1)
    ELSE IF t[1] = 0 THEN Num(0)
    ELSE IF t[1] > 0 THEN Frac(1, 2)
    ELSE Frac(-1, 2)

\* the unnormalised mask at the point of index ix
MaskValue(type, ix, size, periodic) ==
    LET left == TanhOf(TanhArgument(ix, ExtentPercent, size, periodic))
        right == TanhOf(TanhArgument(ix, 100 - ExtentPercent, size, periodic))
        normal == Times(Frac(1, 2), Minus(left, right))
    IN  IF type = "Normal" THEN normal ELSE Minus(Num(1), normal)

\* the coordinates of the grid for the quadrature: spacing 2
MaskCoords(size) == [i \in 1..size |-> 2 * (i - 1)]

\* trapezoid_quadrature_coefficients_1d as a whole (part_007 lines 58-91)
TrapezoidCoefficients(x, periodic) ==
    [i \in 1..Len(x) |->
        IF i = 1 THEN FrontCoefficient(x, periodic)
        ELSE IF i = Len(x) THEN BackCoefficient(x, periodic)
        ELSE InteriorCoefficient(x, i)]

\* Quadrature::operator(): the sum of the weighted values
Integrate(w, f, size) ==
    FracSum([i \in 0..(size - 1) |-> Times(Num(w[i + 1]), f[i])], size)

\* lines 46-47 of the test
MiddleIndex_Quarter(size) == size \div 4

MiddleIndex(size) == size \div 2

TenthIndex(size) == size \div 10

MaskStart ==
    /\ mask_size \in {10 * t : t \in 1..MaxTenths}
    /\ mask_periodic \in BOOLEAN
    /\ mask_type \in {"Normal", "Inverted"}
    /\ mask_normalized \in BOOLEAN
    /\ mask = [ix \in 0..(mask_size - 1) |-> "uninit"]
    /\ mask_ix = 0
    /\ mask_integral = "uninit"
    /\ mask_pc = "tanh"

MaskIdle ==
    /\ mask_size = 0
    /\ mask_periodic = FALSE
    /\ mask_type = "Normal"
    /\ mask_normalized = FALSE
    /\ mask = <<>>
    /\ mask_ix = 0
    /\ mask_integral = "uninit"
    /\ mask_pc = "idle"

\* mask_tanh(gridx, extent, stiffness, type, normalized): one point
MaskTanh ==
    /\ mask_pc = "tanh"
    /\ mask' = [mask EXCEPT ![mask_ix] =
                   MaskValue(mask_type, mask_ix, mask_size, mask_periodic)]
    /\ mask_ix' = mask_ix + 1
    /\ mask_pc' = IF mask_ix + 1 < mask_size THEN "tanh"
                  ELSE IF mask_normalized THEN "normalize" ELSE "integrate"
    /\ UNCHANGED <<mask_size, mask_periodic, mask_type, mask_normalized,
                   mask_integral>>
    /\ UNCHANGED notMask

\* mask_tanh with normalized = true: division by the trapezoid integral
MaskNormalize ==
    /\ mask_pc = "normalize"
    /\ LET w == TrapezoidCoefficients(MaskCoords(mask_size), mask_periodic)
           coeff_norm == Integrate(w, mask, mask_size)
       IN  mask' = [ix \in 0..(mask_size - 1) |-> Over(mask[ix], coeff_norm)]
    /\ mask_pc' = "integrate"
    /\ UNCHANGED <<mask_size, mask_periodic, mask_type, mask_normalized,
                   mask_ix, mask_integral>>
    /\ UNCHANGED notMask

\* lines 64-65, 68 and 71 of the test: integrate_x(mask)
MaskIntegrate ==
    /\ mask_pc = "integrate"
    /\ mask_integral' =
           Integrate(TrapezoidCoefficients(MaskCoords(mask_size), mask_periodic),
                     mask, mask_size)
    /\ mask_pc' = "done"
    /\ UNCHANGED <<mask_size, mask_periodic, mask_type, mask_normalized, mask,
                   mask_ix>>
    /\ UNCHANGED notMask

MaskNext == MaskTanh \/ MaskNormalize \/ MaskIntegrate

(***************************************************************************)
(* main() of the 5D collision test                                         *)
(* (simulations/geometry5D/testcollisions/testcollisions.cpp).             *)
(* The restart file gives, for each of the eight one-dimensional arrays,   *)
(* an extent and that many values, then the three moment fields, a time    *)
(* and the distribution function.  Times are integers.  The collision      *)
(* operator itself is not among the sources; a call of it is recorded as   *)
(* <<"collided", f, deltat>> for the distribution f it is applied to.      *)
(***************************************************************************)
MaxIterStart == 1

GridNames == {"grid_tor1", "grid_tor2", "grid_tor3", "grid_vpar", "grid_mu"}
SpeciesNames == {"species", "charges", "masses"}
VectorNames == GridNames \cup SpeciesNames
MomentNames == {"densityTorCS", "temperatureTorCS", "UparTorCS"}

ExtentChoices == {1, 2}
NbiterChoices == {0, 3}
DeltatChoices == {1, 2}
FileTime == 5
GarbageValues == {-1}

\* the number that tells the arrays apart in the values of the file
ArrayNumber(name) ==
    CASE name = "grid_tor1" -> 1 [] name = "grid_tor2" -> 2
      [] name = "grid_tor3" -> 3 [] name = "grid_vpar" -> 4
      [] name = "grid_mu" -> 5 [] name = "species" -> 6
      [] name = "charges" -> 7 [] name = "masses" -> 8

\* the values the file holds for an array of the given extent
FileValues(name, extent) == [i \in 1..extent |-> 10 * ArrayNumber(name) + i]

\* the names the write_restart event carries (lines 262-276)
WriteRestartNames ==
    {"iter_saved", "time_saved", "grid_tor1", "grid_tor2", "grid_tor3",
     "grid_vpar", "grid_mu", "species", "masses", "charges", "densityTorCS",
     "temperatureTorCS", "UparTorCS", "fdistribu"}

\* a field view of count elements on the storage of vector v; reading
\* beyond the end of v yields the given garbage value
ViewOf(v, count, garbage) ==
    [i \in 1..count |-> IF i <= Len(v) THEN v[i] ELSE garbage]

\* a std::vector that is not constructed yet
NoVector == [state |-> "none", values |-> <<>>]

\* a field that is not allocated yet
NoField == [extent |-> <<>>, values |-> <<"none">>]

TcStart ==
    /\ tc_file \in [extents : [VectorNames -> ExtentChoices], time : {FileTime}]
    /\ tc_conf \in [nbiter : NbiterChoices, deltat : DeltatChoices]
    /\ tc_iter_start \in 0..MaxIterStart
    /\ tc_alias \in BOOLEAN
    /\ tc_pc = "start"
    /\ tc_extents = [name \in VectorNames |-> 0]
    /\ tc_vectors = [name \in VectorNames |-> NoVector]
    /\ tc_views = [name \in SpeciesNames |-> <<>>]
    /\ tc_moments = [name \in MomentNames |-> NoField]
    /\ allfdistribu_host = NoField
    /\ allfdistribu_dev = <<"none">>
    /\ time_saved = "uninit"
    /\ iter_saved = "none"
    /\ tc_nbiter = "unread"
    /\ tc_deltat = "unread"
    /\ tc_collisions = 0
    /\ tc_events = <<>>

TcIdle ==
    /\ tc_file = <<>>
    /\ tc_conf = <<>>
    /\ tc_iter_start = 0
    /\ tc_alias = FALSE
    /\ tc_pc = "idle"
    /\ tc_extents = <<>>
    /\ tc_vectors = <<>>
    /\ tc_views = <<>>
    /\ tc_moments = <<>>
    /\ allfdistribu_host = NoField
    /\ allfdistribu_dev = <<"none">>
    /\ time_saved = "uninit"
    /\ iter_saved = "none"
    /\ tc_nbiter = "unread"
    /\ tc_deltat = "unread"
    /\ tc_collisions = 0
    /\ tc_events = <<>>

\* kinspecies(charges.size()), line 148
Kinspecies == Len(tc_vectors["charges"].values)

\* lines 35-66: arguments, PDI and scopes set up, "restartFile" exposed
TcSetup ==
    /\ tc_pc = "start"
    /\ tc_events' = Append(tc_events,
           [name |-> "restartFile",
            carries |-> {"read_restart_filename_size", "read_restart_filename",
                         "write_restart_filename_size", "write_restart_filename"},
            data |-> <<>>])
    /\ tc_pc' = "read_grid_extents"
    /\ UNCHANGED <<tc_file, tc_conf, tc_iter_start, tc_alias, tc_extents,
                   tc_vectors, tc_views, tc_moments, allfdistribu_host,
                   allfdistribu_dev, time_saved, iter_saved, tc_nbiter,
                   tc_deltat, tc_collisions>>
    /\ UNCHANGED notTc

\* lines 68-102: the extents vectors and the event "read_grid_extents"
TcReadGridExtents ==
    /\ tc_pc = "read_grid_extents"
    /\ tc_extents' = [name \in VectorNames |-> tc_file.extents[name]]
    /\ tc_events' = Append(tc_events,
           [name |-> "read_grid_extents",
            carries |-> {"grid_tor1_extents", "grid_tor2_extents",
                         "grid_tor3_extents", "grid_vpar_extents",
                         "grid_mu_extents", "species_extents",
                         "charges_extents", "masses_extents"},
            data |-> <<>>])
    /\ tc_pc' = "alloc_grids"
    /\ UNCHANGED <<tc_file, tc_conf, tc_iter_start, tc_alias, tc_vectors,
                   tc_views, tc_moments, allfdistribu_host, allfdistribu_dev,
                   time_saved, iter_saved, tc_nbiter, tc_deltat, tc_collisions>>
    /\ UNCHANGED notTc

\* lines 103-110: std::vector<...> name(name_extents[0]), value-initialised
TcAllocGrids ==
    /\ tc_pc = "alloc_grids"
    /\ tc_vectors' = [name \in VectorNames |->
                         [state |-> "allocated",
                          values |-> [i \in 1..tc_extents[name] |-> 0]]]
    /\ tc_pc' = "read_grid"
    /\ UNCHANGED <<tc_file, tc_conf, tc_iter_start, tc_alias, tc_extents,
                   tc_views, tc_moments, allfdistribu_host, allfdistribu_dev,
                   time_saved, iter_saved, tc_nbiter, tc_deltat, tc_collisions,
                   tc_events>>
    /\ UNCHANGED notTc

\* lines 111-137: the event "read_grid" fills the vectors
TcReadGrid ==
    /\ tc_pc = "read_grid"
    /\ tc_vectors' = [name \in VectorNames |->
                         [state |-> "read",
                          values |-> FileValues(name, Len(tc_vectors[name].values))]]
    /\ tc_events' = Append(tc_events,
           [name |-> "read_grid", carries |-> VectorNames, data |-> <<>>])
    /\ tc_pc' = "fields"
    /\ UNCHANGED <<tc_file, tc_conf, tc_iter_start, tc_alias, tc_extents,
                   tc_views, tc_moments, allfdistribu_host, allfdistribu_dev,
                   time_saved, iter_saved, tc_nbiter, tc_deltat, tc_collisions>>
    /\ UNCHANGED notTc

\* lines 138-174: index ranges, host views and device mirrors.  The views of
\* species, charges and masses all have kinspecies = charges.size()
\* elements; copying a view longer than its vector reads beyond the vector,
\* which crashes or yields garbage.
TcFields ==
    /\ tc_pc = "fields"
    /\ LET short == \E name \in SpeciesNames :
                        Len(tc_vectors[name].values) < Kinspecies
       IN  \/ /\ \E garbage \in GarbageValues :
                    tc_views' = [name \in SpeciesNames |->
                                    ViewOf(tc_vectors[name].values, Kinspecies, garbage)]
              /\ tc_pc' = "algorithm"
           \/ /\ short
              /\ tc_pc' = "crash"
              /\ UNCHANGED tc_views
    /\ UNCHANGED <<tc_file, tc_conf, tc_iter_start, tc_alias, tc_extents,
                   tc_vectors, tc_moments, allfdistribu_host, allfdistribu_dev,
                   time_saved, iter_saved, tc_nbiter, tc_deltat, tc_collisions,
                   tc_events>>
    /\ UNCHANGED notTc

\* lines 176-184: deltat, nbiter, time_diag
TcAlgorithm ==
    /\ tc_pc = "algorithm"
    /\ tc_deltat' = tc_conf.deltat
    /\ tc_nbiter' = tc_conf.nbiter
    /\ tc_pc' = "alloc_profiles"
    /\ UNCHANGED <<tc_file, tc_conf, tc_iter_start, tc_alias, tc_extents,
                   tc_vectors, tc_views, tc_moments, allfdistribu_host,
                   allfdistribu_dev, time_saved, iter_saved, tc_collisions,
                   tc_events>>
    /\ UNCHANGED notTc

\* lines 186-190: the three moment fields over (species, tor2, tor1)
TcAllocProfiles ==
    /\ tc_pc = "alloc_profiles"
    /\ tc_moments' = [name \in MomentNames |->
           [extent |-> <<Kinspecies, Len(tc_vectors["grid_tor2"].values),
                         Len(tc_vectors["grid_tor1"].values)>>,
            values |-> <<"uninit">>]]
    /\ tc_pc' = "read_profiles"
    /\ UNCHANGED <<tc_file, tc_conf, tc_iter_start, tc_alias, tc_extents,
                   tc_vectors, tc_views, allfdistribu_host, allfdistribu_dev,
                   time_saved, iter_saved, tc_nbiter, tc_deltat, tc_collisions,
                   tc_events>>
    /\ UNCHANGED notTc

\* lines 191-194: the event "read_profiles"
TcReadProfiles ==
    /\ tc_pc = "read_profiles"
    /\ tc_moments' = [name \in MomentNames |->
           [tc_moments[name] EXCEPT !.values = <<"file", name>>]]
    /\ tc_events' = Append(tc_events,
           [name |-> "read_profiles", carries |-> MomentNames, data |-> <<>>])
    /\ tc_pc' = "alloc_fdistribu"
    /\ UNCHANGED <<tc_file, tc_conf, tc_iter_start, tc_alias, tc_extents,
                   tc_vectors, tc_views, allfdistribu_host, allfdistribu_dev,
                   time_saved, iter_saved, tc_nbiter, tc_deltat, tc_collisions>>
    /\ UNCHANGED notTc

\* lines 196-205: allfdistribu_host over the six index ranges
TcAllocFdistribu ==
    /\ tc_pc = "alloc_fdistribu"
    /\ allfdistribu_host' =
           [extent |-> <<Kinspecies, Len(tc_vectors["grid_tor3"].values),
                         Len(tc_vectors["grid_tor2"].values), Len(tc_vectors["grid_tor1"].values),
                         Len(tc_vectors["grid_vpar"].values), Len(tc_vectors["grid_mu"].values)>>,
            values |-> <<"uninit">>]
    /\ tc_pc' = "read_fdistribu"
    /\ UNCHANGED <<tc_file, tc_conf, tc_iter_start, tc_alias, tc_extents,
                   tc_vectors, tc_views, tc_moments, allfdistribu_dev,
                   time_saved, iter_saved, tc_nbiter, tc_deltat, tc_collisions,
                   tc_events>>
    /\ UNCHANGED notTc

\* lines 206-213: the event "read_fdistribu", then the device mirror
TcReadFdistribu ==
    /\ tc_pc = "read_fdistribu"
    /\ time_saved' = tc_file.time
    /\ allfdistribu_host' = [allfdistribu_host EXCEPT !.values = <<"file", "fdistribu">>]
    /\ allfdistribu_dev' = <<"file", "fdistribu">>
    /\ tc_events' = Append(tc_events,
           [name |-> "read_fdistribu", carries |-> {"time_saved", "fdistribu"},
            data |-> <<>>])
    /\ tc_pc' = "collision"
    /\ UNCHANGED <<tc_file, tc_conf, tc_iter_start, tc_alias, tc_extents,
                   tc_vectors, tc_views, tc_moments, iter_saved, tc_nbiter,
                   tc_deltat, tc_collisions>>
    /\ UNCHANGED notTc

\* line 255: collision_operator(allfdistribu, deltat) works on the device
\* field; the host field changes with it only when the mirror is the host
\* field itself
TcCollision ==
    /\ tc_pc = "collision"
    /\ allfdistribu_dev' = <<"collided", allfdistribu_dev, tc_deltat>>
    /\ allfdistribu_host' =
           IF tc_alias
           THEN [allfdistribu_host EXCEPT !.values = allfdistribu_dev']
           ELSE allfdistribu_host
    /\ tc_collisions' = tc_collisions + 1
    /\ tc_pc' = "advance"
    /\ UNCHANGED <<tc_file, tc_conf, tc_iter_start, tc_alias, tc_extents,
                   tc_vectors, tc_views, tc_moments, time_saved, iter_saved,
                   tc_nbiter, tc_deltat, tc_events>>
    /\ UNCHANGED notTc

\* lines 257-259: iter_saved(iter_start + 1); iter = 1;
\* time_saved = time_saved + iter * deltat
TcAdvance ==
    /\ tc_pc = "advance"
    /\ iter_saved' = tc_iter_start + 1
    /\ time_saved' = time_saved + 1 * tc_deltat
    /\ tc_pc' = "deepcopy"
    /\ UNCHANGED <<tc_file, tc_conf, tc_iter_start, tc_alias, tc_extents,
                   tc_vectors, tc_views, tc_moments, allfdistribu_host,
                   allfdistribu_dev, tc_nbiter, tc_deltat, tc_collisions,
                   tc_events>>
    /\ UNCHANGED notTc

\* what the host buffer holds after the copy of line 261, left undone
DeepcopyResult_Stale(host, dev) == host

\* what the host buffer holds after ddc::parallel_deepcopy(host, dev), line 261
DeepcopyResult(host, dev) == dev

\* line 261
TcDeepcopy ==
    /\ tc_pc = "deepcopy"
    /\ allfdistribu_host' =
           [allfdistribu_host EXCEPT
               !.values = DeepcopyResult(allfdistribu_host.values, allfdistribu_dev)]
    /\ tc_pc' = "write_restart"
    /\ UNCHANGED <<tc_file, tc_conf, tc_iter_start, tc_alias, tc_extents,
                   tc_vectors, tc_views, tc_moments, allfdistribu_dev,
                   time_saved, iter_saved, tc_nbiter, tc_deltat, tc_collisions,
                   tc_events>>
    /\ UNCHANGED notTc

\* what the event "write_restart" hands over under each name (lines 262-276)
WriteRestartData ==
    [name \in WriteRestartNames |->
        CASE name = "iter_saved" -> iter_saved
          [] name = "time_saved" -> time_saved
          [] name \in GridNames -> tc_vectors[name].values
          [] name \in SpeciesNames -> tc_views[name]
          [] name \in MomentNames -> tc_moments[name].values
          [] name = "fdistribu" -> allfdistribu_host.values]

\* lines 262-276: the event "write_restart"
TcWriteRestart ==
    /\ tc_pc = "write_restart"
    /\ tc_events' = Append(tc_events,
           [name |-> "write_restart", carries |-> WriteRestartNames,
            data |-> WriteRestartData])
    /\ tc_pc' = "finalize"
    /\ UNCHANGED <<tc_file, tc_conf, tc_iter_start, tc_alias, tc_extents,
                   tc_vectors, tc_views, tc_moments, allfdistribu_host,
                   allfdistribu_dev, time_saved, iter_saved, tc_nbiter,
                   tc_deltat, tc_collisions>>
    /\ UNCHANGED notTc

\* lines 278-289: timing report, PDI_finalize, the trees destroyed, return
TcFinalize ==
    /\ tc_pc = "finalize"
    /\ tc_pc' = "exit"
    /\ UNCHANGED <<tc_file, tc_conf, tc_iter_start, tc_alias, tc_extents,
                   tc_vectors, tc_views, tc_moments, allfdistribu_host,
                   allfdistribu_dev, time_saved, iter_saved, tc_nbiter,
                   tc_deltat, tc_collisions, tc_events>>
    /\ UNCHANGED notTc

TcNext ==
    \/ TcSetup
    \/ TcReadGridExtents
    \/ TcAllocGrids
    \/ TcReadGrid
    \/ TcFields
    \/ TcAlgorithm
    \/ TcAllocProfiles
    \/ TcReadProfiles
    \/ TcAllocFdistribu
    \/ TcReadFdistribu
    \/ TcCollision
    \/ TcAdvance
    \/ TcDeepcopy
    \/ TcWriteRestart
    \/ TcFinalize

(***************************************************************************)
(* Process-wide resources of the executables: main() of diocotron          *)
(* (unnamed/part_000), neutrals (simulations/geometryXVx/neutrals) and the *)
(* 5D collision test (simulations/geometry5D/testcollisions).  Each main   *)
(* is the list of its statements that set up or tear down a resource, with *)
(* the simulation in between.  The two scope guards are local objects of   *)
(* main: they are destroyed when main returns, the one declared last       *)
(* first.                                                                  *)
(***************************************************************************)
MaxNbiter == 3

Executables == {"diocotron", "neutrals", "testcollisions"}

\* the simulation configuration tree, the PDI configuration tree, PDI, the
\* Kokkos execution scope, the DDC scope
Resources == {"conf", "conf_pdi", "PDI", "Kokkos", "DDC"}

\* the statements every main() starts with: parse_executable_arguments,
\* PC_parse_string, PDI_init, Kokkos::ScopeGuard, ddc::ScopeGuard
Prologue ==
    << <<"init", "conf">>, <<"init", "conf_pdi">>, <<"init", "PDI">>,
       <<"init", "Kokkos">>, <<"init", "DDC">> >>

\* return EXIT_SUCCESS: the scope guards go out of scope
ScopeExit == << <<"teardown", "DDC">>, <<"teardown", "Kokkos">> >>

\* the statements of main() that matter here, for each executable
Program(exe) ==
    Prologue \o << <<"simulate", "none">> >> \o
    (CASE exe = "diocotron" ->
            << <<"teardown", "conf_pdi">>, <<"teardown", "PDI">>,
               <<"teardown", "conf">> >>
       [] exe = "neutrals" ->
            << <<"teardown", "conf_pdi">>, <<"teardown", "PDI">>,
               <<"teardown", "conf">> >>
       [] exe = "testcollisions" ->
            << <<"teardown", "PDI">>, <<"teardown", "conf_pdi">>,
               <<"teardown", "conf">> >>)
    \o ScopeExit

\* iterations of the simulation: the predictor-corrector runs nbiter
\* iterations, the collision test applies one collision step
Iterations(exe, nbiter) == IF exe = "testcollisions" THEN 1 ELSE nbiter

LcStart ==
    /\ lc_exe \in Executables
    /\ lc_nbiter \in 0..MaxNbiter
    /\ lc_iter = 0
    /\ lc_pc = 1
    /\ lc_log = <<>>

LcIdle ==
    /\ lc_exe = "none"
    /\ lc_nbiter = 0
    /\ lc_iter = 0
    /\ lc_pc = 0
    /\ lc_log = <<>>

\* the next statement of main(), if any
LcStatement ==
    IF lc_pc >= 1 /\ lc_pc <= Len(Program(lc_exe))
    THEN Program(lc_exe)[lc_pc] ELSE <<"exit", "none">>

\* a statement that sets a resource up
LcInitialise ==
    /\ lc_exe \in Executables
    /\ LcStatement[1] = "init"
    /\ lc_log' = Append(lc_log, LcStatement)
    /\ lc_pc' = lc_pc + 1
    /\ UNCHANGED <<lc_exe, lc_nbiter, lc_iter>>
    /\ UNCHANGED notLc

\* one iteration of the simulation
LcIterate ==
    /\ lc_exe \in Executables
    /\ LcStatement[1] = "simulate"
    /\ lc_iter < Iterations(lc_exe, lc_nbiter)
    /\ lc_iter' = lc_iter + 1
    /\ UNCHANGED <<lc_exe, lc_nbiter, lc_pc, lc_log>>
    /\ UNCHANGED notLc

\* the simulation returns
LcSimulated ==
    /\ lc_exe \in Executables
    /\ LcStatement[1] = "simulate"
    /\ lc_iter = Iterations(lc_exe, lc_nbiter)
    /\ lc_pc' = lc_pc + 1
    /\ UNCHANGED <<lc_exe, lc_nbiter, lc_iter, lc_log>>
    /\ UNCHANGED notLc

\* a statement that tears a resource down, or a scope guard destroyed
LcTearDown ==
    /\ lc_exe \in Executables
    /\ LcStatement[1] = "teardown"
    /\ lc_log' = Append(lc_log, LcStatement)
    /\ lc_pc' = lc_pc + 1
    /\ UNCHANGED <<lc_exe, lc_nbiter, lc_iter>>
    /\ UNCHANGED notLc

LcNext ==
    \/ LcInitialise
    \/ LcIterate
    \/ LcSimulated
    \/ LcTearDown

(***************************************************************************)
(* SplineBuilder2D::operator() (vendor/sll/include/sll/spline_builder_2d   *)
(* .hpp, lines 261-520), in a debug build.  The one-dimensional builders   *)
(* and the basis are not among the sources: a basis of a given degree on   *)
(* ncells cells has ncells + degree coefficients, of which the first       *)
(* ncells are the basis functions when it is periodic; a Hermite boundary  *)
(* takes degree / 2 derivatives; the interpolation points are as many as   *)
(* the basis functions that no boundary derivative accounts for, numbered  *)
(* from 0.  A coefficient is recorded as the pass that wrote it last and   *)
(* the coefficient of the one-dimensional spline it was copied from.       *)
(***************************************************************************)
MaxDegree == 3
MaxCells == 3

BoundConds == {"PERIODIC", "HERMITE", "GREVILLE"}

\* the boundary conditions of one dimension: periodic at both ends or at none
BoundCondPairs ==
    {p \in BoundConds \X BoundConds : (p[1] = "PERIODIC") = (p[2] = "PERIODIC")}

\* the optional arguments of operator() (lines 264-271)
DerivNames == {"derivs_xmin", "derivs_xmax", "derivs_ymin", "derivs_ymax"}
MixedNames == {"mixed_derivs_xmin_ymin", "mixed_derivs_xmax_ymin",
               "mixed_derivs_xmin_ymax", "mixed_derivs_xmax_ymax"}

Hermite(bc) == bc = "HERMITE"

\* s_nbc_xmin, s_nbc_xmax of a one-dimensional builder
Nbc(bc, degree) == IF Hermite(bc) THEN degree \div 2 ELSE 0

\* lines 274-277
nbc_xmin == Nbc(sb_bc.BcXmin1, sb_degree[1])
nbc_xmax == Nbc(sb_bc.BcXmax1, sb_degree[1])
nbc_ymin == Nbc(sb_bc.BcXmin2, sb_degree[2])
nbc_ymax == Nbc(sb_bc.BcXmax2, sb_degree[2])

IsPeriodic(dim) ==
    IF dim = 1 THEN sb_bc.BcXmin1 = "PERIODIC" ELSE sb_bc.BcXmin2 = "PERIODIC"

\* ddc::discrete_space<bsplines_type>().size() and .nbasis()
BasisSize(dim) == sb_ncells[dim] + sb_degree[dim]
Nbasis(dim) == IF IsPeriodic(dim) THEN sb_ncells[dim] ELSE BasisSize(dim)

\* the number of points of spline_builder.interpolation_domain()
NInterp(dim) ==
    Nbasis(dim) - (IF dim = 1 THEN nbc_xmin + nbc_xmax ELSE nbc_ymin + nbc_ymax)

\* std::optional::has_value(), with the extents the documentation asks for
HasValue(name) == name \in sb_args

\* the eight assertions of lines 279-298
EntryAssertions ==
    /\ Hermite(sb_bc.BcXmin1) # (~HasValue("derivs_xmin"))
    /\ Hermite(sb_bc.BcXmax1) # (~HasValue("derivs_xmax"))
    /\ Hermite(sb_bc.BcXmin2) # (~HasValue("derivs_ymin"))
    /\ Hermite(sb_bc.BcXmax2) # (~HasValue("derivs_ymax"))
    /\ (Hermite(sb_bc.BcXmin1) /\ Hermite(sb_bc.BcXmin2))
           # (~HasValue("mixed_derivs_xmin_ymin"))
    /\ (Hermite(sb_bc.BcXmax1) /\ Hermite(sb_bc.BcXmin2))
           # (~HasValue("mixed_derivs_xmax_ymin"))
    /\ (Hermite(sb_bc.BcXmin2) /\ Hermite(sb_bc.BcXmax2))
           # (~HasValue("mixed_derivs_xmin_ymax"))
    /\ (Hermite(sb_bc.BcXmax2) /\ Hermite(sb_bc.BcXmax2))
           # (~HasValue("mixed_derivs_xmax_ymax"))

\* the coefficient of index j of a one-dimensional spline: the periodic
\* ones repeat the first ones
SplineCoefficient(dim, j) == IF IsPeriodic(dim) THEN j % Nbasis(dim) ELSE j

\* spline(spl_idx, j) = spline1(j) for every j (lines 356-360, 394-398,
\* 455-459)
SaveRow(spline, row) ==
    [p \in DOMAIN spline |->
        IF p[2] = row THEN <<"first pass", SplineCoefficient(1, p[1]), row>>
        ELSE spline[p]]

SbStart ==
    /\ sb_bc \in {[BcXmin1 |-> p[1], BcXmax1 |-> p[2], BcXmin2 |-> q[1],
                   BcXmax2 |-> q[2]] : p \in BoundCondPairs, q \in BoundCondPairs}
    /\ sb_degree \in [{1, 2} -> 2..MaxDegree]
    /\ sb_ncells \in [{1, 2} -> {MaxCells}]
    /\ sb_args = {}
    /\ sb_pc = "call"
    /\ sb_i = 0
    /\ sb_writes = [row \in 0..(BasisSize(2) - 1) |-> 0]
    /\ sb_spline = [p \in (0..(BasisSize(1) - 1)) \X (0..(BasisSize(2) - 1)) |->
                       <<"uninitialised">>]

SbIdle ==
    /\ sb_bc = <<>>
    /\ sb_degree = <<>>
    /\ sb_ncells = <<>>
    /\ sb_args = {}
    /\ sb_pc = "idle"
    /\ sb_i = 0
    /\ sb_writes = <<>>
    /\ sb_spline = <<>>

\* the optional arguments a pass dereferences
LowerDereferenced ==
    {"derivs_ymin"}
        \cup (IF Hermite(sb_bc.BcXmin1) THEN {"mixed_derivs_xmin_ymin"} ELSE {})
        \cup (IF Hermite(sb_bc.BcXmax1) THEN {"mixed_derivs_xmax_ymin"} ELSE {})

MiddleDereferenced ==
    (IF Hermite(sb_bc.BcXmin1) THEN {"derivs_xmin"} ELSE {})
        \cup (IF Hermite(sb_bc.BcXmax1) THEN {"derivs_xmax"} ELSE {})

\* lines 408-450: the assertions of lines 412-419 and the loops of lines
\* 434-448
UpperDereferenced ==
    {"derivs_ymax"}
        \cup (IF Hermite(sb_bc.BcXmin2) THEN {"mixed_derivs_xmin_ymax"} ELSE {})
        \cup (IF Hermite(sb_bc.BcXmax2) THEN {"mixed_derivs_xmax_ymax"} ELSE {})
        \cup (IF Hermite(sb_bc.BcXmin1) THEN {"mixed_derivs_xmin_ymax"} ELSE {})
        \cup (IF Hermite(sb_bc.BcXmax1) THEN {"mixed_derivs_xmax_ymax"} ELSE {})

\* the caller passes some of the optional arguments
SbCall ==
    /\ sb_pc = "call"
    /\ sb_args' \in SUBSET (DerivNames \cup MixedNames)
    /\ sb_pc' = "entry"
    /\ UNCHANGED <<sb_bc, sb_degree, sb_ncells, sb_i, sb_writes, sb_spline>>
    /\ UNCHANGED notSb

\* lines 279-298
SbEntry ==
    /\ sb_pc = "entry"
    /\ IF EntryAssertions
       THEN /\ sb_pc' = IF Hermite(sb_bc.BcXmin2) THEN "lower" ELSE "middle"
            /\ sb_i' = IF Hermite(sb_bc.BcXmin2) THEN nbc_ymin ELSE 0
       ELSE /\ sb_pc' = "assertion failed"
            /\ UNCHANGED sb_i
    /\ UNCHANGED <<sb_bc, sb_degree, sb_ncells, sb_args, sb_writes, sb_spline>>
    /\ UNCHANGED notSb

\* lines 312-362: one turn of for (int i = nbc_ymin; i > 0; --i)
SbLowerRow ==
    /\ sb_pc = "lower"
    /\ IF ~(LowerDereferenced \subseteq sb_args)
       THEN /\ sb_pc' = "empty optional dereferenced"
            /\ UNCHANGED <<sb_i, sb_writes, sb_spline>>
       ELSE LET spl_idx == sb_i - 1
            IN  /\ sb_spline' = SaveRow(sb_spline, spl_idx)
                /\ sb_writes' = [sb_writes EXCEPT ![spl_idx] = @ + 1]
                /\ sb_i' = IF sb_i - 1 > 0 THEN sb_i - 1 ELSE 0
                /\ sb_pc' = IF sb_i - 1 > 0 THEN "lower" ELSE "middle"
    /\ UNCHANGED <<sb_bc, sb_degree, sb_ncells, sb_args>>
    /\ UNCHANGED notSb

\* the first index the upper pass starts from, or the second pass
AfterMiddle == IF Hermite(sb_bc.BcXmax2) THEN "upper" ELSE "second"

\* lines 364-399: one interpolation point i of dimension 2, ii = i.uid()
SbMiddleRow ==
    /\ sb_pc = "middle"
    /\ IF ~(MiddleDereferenced \subseteq sb_args)
       THEN /\ sb_pc' = "empty optional dereferenced"
            /\ UNCHANGED <<sb_i, sb_writes, sb_spline>>
       ELSE LET spl_idx == nbc_ymin + sb_i
                last == sb_i + 1 = NInterp(2)
            IN  /\ sb_spline' = SaveRow(sb_spline, spl_idx)
                /\ sb_writes' = [sb_writes EXCEPT ![spl_idx] = @ + 1]
                /\ sb_pc' = IF last THEN AfterMiddle ELSE "middle"
                /\ sb_i' = IF ~last THEN sb_i + 1
                           ELSE IF Hermite(sb_bc.BcXmax2) THEN nbc_ymax ELSE 0
    /\ UNCHANGED <<sb_bc, sb_degree, sb_ncells, sb_args>>
    /\ UNCHANGED notSb

\* lines 422-423: the index of the row that turn i of the upper pass writes
UpperRowIndex(i, nbasis, nbc) == i + nbasis - nbc - 1

\* lines 408-461: one turn of for (int i = nbc_ymax; i > 0; --i)
SbUpperRow ==
    /\ sb_pc = "upper"
    /\ LET spl_idx == UpperRowIndex(sb_i, Nbasis(2), nbc_ymax)
       IN  IF ~(UpperDereferenced \subseteq sb_args)
           THEN /\ sb_pc' = "empty optional dereferenced"
                /\ UNCHANGED <<sb_i, sb_writes, sb_spline>>
           ELSE /\ sb_spline' = SaveRow(sb_spline, spl_idx)
                /\ sb_writes' = [sb_writes EXCEPT ![spl_idx] = @ + 1]
                /\ sb_i' = IF sb_i - 1 > 0 THEN sb_i - 1 ELSE 0
                /\ sb_pc' = IF sb_i - 1 > 0 THEN "upper" ELSE "second"
    /\ UNCHANGED <<sb_bc, sb_degree, sb_ncells, sb_args>>
    /\ UNCHANGED notSb

\* lines 478-509: the second pass for the index sb_i of dimension 1:
\* spline(i, j) = spline2(j) for every j
SbSecondPass ==
    /\ sb_pc = "second"
    /\ sb_spline' = [p \in DOMAIN sb_spline |->
                        IF p[1] = sb_i
                        THEN <<"second pass", sb_i, SplineCoefficient(2, p[2])>>
                        ELSE sb_spline[p]]
    /\ sb_i' = IF sb_i + 1 < Nbasis(1) THEN sb_i + 1 ELSE 0
    /\ sb_pc' = IF sb_i + 1 < Nbasis(1) THEN "second"
                ELSE IF IsPeriodic(1) THEN "copy" ELSE "returned"
    /\ UNCHANGED <<sb_bc, sb_degree, sb_ncells, sb_args, sb_writes>>
    /\ UNCHANGED notSb

\* the source of the copy of lines 512-515 for the target index i_end
CopySource_Self(i_end, nbasis) == i_end

CopySource(i_end, nbasis) == i_end - nbasis

\* lines 510-519: one turn of for (i = 0; i < degree(); ++i)
SbPeriodicCopy ==
    /\ sb_pc = "copy"
    /\ LET i_end == Nbasis(1) + sb_i
       IN  sb_spline' = [p \in DOMAIN sb_spline |->
                            IF p[1] = i_end
                            THEN sb_spline[<<CopySource(i_end, Nbasis(1)), p[2]>>]
                            ELSE sb_spline[p]]
    /\ sb_i' = IF sb_i + 1 < sb_degree[1] THEN sb_i + 1 ELSE 0
    /\ sb_pc' = IF sb_i + 1 < sb_degree[1] THEN "copy" ELSE "returned"
    /\ UNCHANGED <<sb_bc, sb_degree, sb_ncells, sb_args, sb_writes>>
    /\ UNCHANGED notSb

SbNext ==
    \/ SbCall
    \/ SbEntry
    \/ SbLowerRow
    \/ SbMiddleRow
    \/ SbUpperRow
    \/ SbSecondPass
    \/ SbPeriodicCopy

(***************************************************************************)
(* The parallel kernels of trapezoid_quadrature_coefficients_1d and of     *)
(* BumpontailEquilibrium.  A kernel is a set of iterations that run one    *)
(* at a time in any order; the kernels of one execution space complete in  *)
(* the order the host issues them.  Array elements are named               *)
(* <<array, species, index>>.  The value compute_twomaxwellian stores for  *)
(* a species and a velocity index is kept as the term <<"fM", isp, ivx>>.  *)
(***************************************************************************)
\* part_007 line 69: idx_range.remove(IdxStep(1), IdxStep(1))
MiddleDomain(n) == 2..(n - 1)

\* part_007 lines 74, 82-86: the element coefficients(idx)
CoefficientElement(idx) == <<"coefficients", 0, idx>>

\* bumpontailequilibrium.cpp lines 35, 62: the element maxwellian(ivx)
MaxwellianElement_First(ivx) == <<"maxwellian", 0, 0>>
MaxwellianElement(ivx) == <<"maxwellian", 0, ivx>>

\* bumpontailequilibrium.cpp line 35: the element allfequilibrium(isp, ivx)
EquilibriumElement(isp, ivx) == <<"allfequilibrium", isp, ivx>>

\* bumpontailequilibrium.cpp lines 53-62: the value stored for a species and ivx
TwoMaxwellian(isp, ivx) == <<"fM", isp, ivx>>

\* the kernels a call issues, in order: name, species, iterations
Kernels(case) ==
    IF case.exe = "trapezoid"
    THEN << [name |-> "middle", isp |-> 0, iterations |-> MiddleDomain(case.n)],
            [name |-> "bounds", isp |-> 0, iterations |-> {0}] >>
    ELSE [k \in 1..(2 * case.nsp) |->
            [name |-> IF k % 2 = 1 THEN "compute_twomaxwellian" ELSE "copy",
             isp |-> (k + 1) \div 2,
             iterations |-> GridVx]]

\* the elements iteration it of a kernel writes
KernelWrites(case, kernel, it) ==
    IF kernel.name = "middle" THEN {CoefficientElement(it)}
    ELSE IF kernel.name = "bounds"
    THEN {CoefficientElement(1), CoefficientElement(case.n)}
    ELSE IF kernel.name = "compute_twomaxwellian" THEN {MaxwellianElement(it)}
    ELSE {EquilibriumElement(kernel.isp, it)}

\* the elements iteration it of a kernel reads
KernelReads(case, kernel, it) ==
    IF kernel.name = "copy" THEN {MaxwellianElement(it)}
    ELSE IF kernel.name = "bounds" /\ case.periodic
    THEN {CoefficientElement(1), CoefficientElement(case.n)}
    ELSE {}

\* the arrays after iteration it of a kernel
KernelEffect(case, kernel, it, mem) ==
    IF kernel.name = "middle"
    THEN [mem EXCEPT ![CoefficientElement(it)] = InteriorCoefficient(case.coords, it)]
    ELSE IF kernel.name = "bounds"
    THEN LET dx_l == distance_at_left(case.coords, case.n)
             dx_r == distance_at_right(case.coords, 1)
             m1 == [mem EXCEPT ![CoefficientElement(1)] = Half(dx_r)]
             m2 == [m1 EXCEPT ![CoefficientElement(case.n)] = Half(dx_l)]
             m3 == [m2 EXCEPT ![CoefficientElement(1)] = @ + Half(dx_l)]
             m4 == [m3 EXCEPT ![CoefficientElement(case.n)] = @ + Half(dx_r)]
         IN  IF case.periodic THEN m4 ELSE m2
    ELSE IF kernel.name = "compute_twomaxwellian"
    THEN [mem EXCEPT ![MaxwellianElement(it)] = TwoMaxwellian(kernel.isp, it)]
    ELSE [mem EXCEPT ![EquilibriumElement(kernel.isp, it)] = mem[MaxwellianElement(it)]]

TrapezoidCases ==
    UNION {{[exe |-> "trapezoid", n |-> n, nsp |-> 0, periodic |-> p,
             coords |-> [i \in 1..n |-> CoordsFrom(d, i)]] :
                d \in [1..(n - 1) -> Spacings], p \in BOOLEAN} : n \in 2..MaxPoints}

BumpontailCases ==
    {[exe |-> "bumpontail", n |-> 0, nsp |-> nsp, periodic |-> FALSE,
      coords |-> <<>>] : nsp \in 1..MaxSpecies}

\* the arrays a call allocates, before any kernel has run
KernelMemory(case) ==
    IF case.exe = "trapezoid"
    THEN [e \in {CoefficientElement(i) : i \in 1..case.n} |-> 0]
    ELSE [e \in {MaxwellianElement(ivx) : ivx \in GridVx}
                \cup {EquilibriumElement(isp, ivx) : isp \in 1..case.nsp, ivx \in GridVx}
             |-> <<"uninit", 0, 0>>]

KnStart ==
    /\ kn_case \in TrapezoidCases \cup BumpontailCases
    /\ kn_kernel = 1
    /\ kn_pending = Kernels(kn_case)[1].iterations
    /\ kn_mem = KernelMemory(kn_case)
    /\ kn_log = {}
    /\ kn_pc = "running"

KnIdle ==
    /\ kn_case = [exe |-> "none", n |-> 0, nsp |-> 0, periodic |-> FALSE,
                  coords |-> <<>>]
    /\ kn_kernel = 0
    /\ kn_pending = {}
    /\ kn_mem = <<>>
    /\ kn_log = {}
    /\ kn_pc = "idle"

\* one iteration of the running kernel, whichever the device schedules next
KnIterate ==
    /\ kn_pc = "running"
    /\ \E it \in kn_pending :
          LET kernel == Kernels(kn_case)[kn_kernel]
          IN  /\ kn_mem' = KernelEffect(kn_case, kernel, it, kn_mem)
              /\ kn_log' = kn_log
                    \cup {[kernel |-> kn_kernel, it |-> it, elem |-> e, mode |-> "write"] :
                             e \in KernelWrites(kn_case, kernel, it)}
                    \cup {[kernel |-> kn_kernel, it |-> it, elem |-> e, mode |-> "read"] :
                             e \in KernelReads(kn_case, kernel, it)}
              /\ kn_pending' = kn_pending \ {it}
    /\ UNCHANGED <<kn_case, kn_kernel, kn_pc>>
    /\ UNCHANGED notKn

\* the running kernel has completed: the next one the host issued starts, or
\* the function returns
KnComplete ==
    /\ kn_pc = "running"
    /\ kn_pending = {}
    /\ IF kn_kernel < Len(Kernels(kn_case))
       THEN /\ kn_kernel' = kn_kernel + 1
            /\ kn_pending' = Kernels(kn_case)[kn_kernel + 1].iterations
            /\ UNCHANGED kn_pc
       ELSE /\ kn_pc' = "returned"
            /\ UNCHANGED <<kn_kernel, kn_pending>>
    /\ UNCHANGED <<kn_case, kn_mem, kn_log>>
    /\ UNCHANGED notKn

KnNext == KnIterate \/ KnComplete

(***************************************************************************)
(* Matrix_Corner_Block: the elements solve_inplace, solve_transpose_inplace*)
(* and solve_inplace_matrix index.  u and v are the views of the first nb  *)
(* and the last k rows of bx (lines 135-136, 156-157, 177-178); an access  *)
(* is the array and the indices it is subscripted with, the column being 0 *)
(* for a vector.  The solves of the inner matrices touch every row of the  *)
(* view they are given.                                                    *)
(***************************************************************************)
MaxCols == 2        \* largest number of columns of bx explored

SolveSizes == 1..(MaxN + 1)

SolveFunctions == {"solve_inplace", "solve_transpose_inplace", "solve_inplace_matrix"}

\* lines 138-149, 159-170, 180-194: the statements of a solve, in order
Statements(fn) ==
    IF fn = "solve_transpose_inplace"
    THEN <<"delta", "solve_lambda_section_transpose", "q_block", "update_transpose">>
    ELSE <<"q_block", "solve_lambda_section", "delta", "update">>

\* lines 10, 15-16: nb and the extents of the blocks and of the views
SolveNb(call) == call.n - call.k

Extents(call, array) ==
    IF array = "u" THEN <<SolveNb(call), call.cols>>
    ELSE IF array = "v" THEN <<call.k, call.cols>>
    ELSE IF array = "Abm_1_gamma" THEN <<call.k, SolveNb(call)>>
    ELSE <<SolveNb(call), call.k>>

InExtents(call, a) ==
    /\ a.index[1] >= 0 /\ a.index[1] < Extents(call, a.array)[1]
    /\ a.index[2] >= 0 /\ a.index[2] < Extents(call, a.array)[2]

\* the bounds of the outer and of the inner loop of a statement
LoopBounds(call, statement) ==
    IF statement \in {"solve_lambda_section", "solve_lambda_section_transpose"}
    THEN <<call.k, SolveNb(call)>>
    ELSE IF statement = "update" THEN <<SolveNb(call), call.k>>
    ELSE IF statement = "update_transpose" THEN <<call.k, SolveNb(call)>>
    ELSE <<1, 1>>

\* line 168: the element of v the transposed update multiplies by
TransposeFactor(i, j) == i

\* the elements the body of a statement indexes, for the outer counter a and
\* the inner counter b, in every column of bx
Indexed(call, statement, a, b) ==
    LET Cols == 0..(call.cols - 1)
        Vec(array, row) == {[array |-> array, index |-> <<row, col>>] : col \in Cols}
        Blk(array, row, c) == {[array |-> array, index |-> <<row, c>>]}
    IN  IF statement = "q_block"
        THEN UNION {Vec("u", row) : row \in 0..(SolveNb(call) - 1)}
        ELSE IF statement = "delta"
        THEN UNION {Vec("v", row) : row \in 0..(call.k - 1)}
        ELSE IF statement \in {"solve_lambda_section", "solve_lambda_section_transpose"}
        THEN Vec("v", a) \cup Blk("lambda", b, a) \cup Vec("u", b)
        ELSE IF statement = "update"
        THEN Blk("Abm_1_gamma", b, a) \cup Vec("v", b) \cup Vec("u", a)
        ELSE Blk("Abm_1_gamma", a, b) \cup Vec("v", TransposeFactor(b, a))
                \cup Vec("v", a)

SvStart ==
    /\ \E fn \in SolveFunctions, n \in SolveSizes :
          \E k \in 0..n, cols \in 1..MaxCols :
             /\ fn # "solve_inplace_matrix" => cols = 1
             /\ sv_call = [fn |-> fn, n |-> n, k |-> k, cols |-> cols]
    /\ sv_stage = 1
    /\ sv_i = 0
    /\ sv_j = 0
    /\ sv_access = {}
    /\ sv_pc = "running"

SvIdle ==
    /\ sv_call = [fn |-> "none", n |-> 0, k |-> 0, cols |-> 0]
    /\ sv_stage = 0
    /\ sv_i = 0
    /\ sv_j = 0
    /\ sv_access = {}
    /\ sv_pc = "idle"

\* one turn of the inner loop of the running statement (the single turn of
\* an inner solve)
SvBody ==
    /\ sv_pc = "running"
    /\ LET statement == Statements(sv_call.fn)[sv_stage]
           bounds == LoopBounds(sv_call, statement)
           indexed == Indexed(sv_call, statement, sv_i, sv_j)
       IN  /\ sv_i < bounds[1] /\ sv_j < bounds[2]
           /\ sv_access' = indexed
           /\ IF \A a \in indexed : InExtents(sv_call, a)
              THEN /\ sv_j' = sv_j + 1
                   /\ UNCHANGED sv_pc
              ELSE /\ sv_pc' = "out of bounds"
                   /\ UNCHANGED sv_j
    /\ UNCHANGED <<sv_call, sv_stage, sv_i>>
    /\ UNCHANGED notSv

\* the inner loop has ended: the next turn of the outer loop
SvOuter ==
    /\ sv_pc = "running"
    /\ LET bounds == LoopBounds(sv_call, Statements(sv_call.fn)[sv_stage])
       IN  sv_i < bounds[1] /\ sv_j >= bounds[2]
    /\ sv_i' = sv_i + 1
    /\ sv_j' = 0
    /\ UNCHANGED <<sv_call, sv_stage, sv_access, sv_pc>>
    /\ UNCHANGED notSv

\* the outer loop has ended: the next statement, or the return
SvStatement ==
    /\ sv_pc = "running"
    /\ sv_i >= LoopBounds(sv_call, Statements(sv_call.fn)[sv_stage])[1]
    /\ IF sv_stage < Len(Statements(sv_call.fn))
       THEN /\ sv_stage' = sv_stage + 1
            /\ UNCHANGED sv_pc
       ELSE /\ sv_pc' = "returned"
            /\ UNCHANGED sv_stage
    /\ sv_i' = 0
    /\ sv_j' = 0
    /\ UNCHANGED <<sv_call, sv_access>>
    /\ UNCHANGED notSv

SvNext == SvBody \/ SvOuter \/ SvStatement

(***************************************************************************)
(* The diocotron executable, main(): the time parameters and the time      *)
(* loop.  delta_t and final_T are multiples of a quarter of a time unit,   *)
(* kept as their number of quarters; such values, their quotient truncated *)
(* to an integer and the products formed here are exact in double          *)
(* precision.                                                              *)
(***************************************************************************)
MaxQuarters == 8    \* largest delta_t and final_T explored, in quarters

\* line 230: int(1 / dt), the conversion truncates (one is four quarters)
IntInverse(dt) == 4 \div dt

\* line 230: int iter_nb = final_T * int(1 / dt); the product is a double
\* that the initialisation truncates (a quarter of the product in quarters)
IterNb(final_T, dt) == (final_T * IntInverse(dt)) \div 4

DioStart ==
    /\ dio_dt \in 1..MaxQuarters
    /\ dio_final_T \in 0..MaxQuarters
    /\ iter_nb = 0
    /\ dio_iter = 0
    /\ dio_pc = "time parameters"

DioIdle ==
    /\ dio_dt = 1
    /\ dio_final_T = 0
    /\ iter_nb = 0
    /\ dio_iter = 0
    /\ dio_pc = "idle"

\* lines 87-88, 229-230
DioTimeParameters ==
    /\ dio_pc = "time parameters"
    /\ iter_nb' = IterNb(dio_final_T, dio_dt)
    /\ dio_pc' = "simulation"
    /\ UNCHANGED <<dio_dt, dio_final_T, dio_iter>>
    /\ UNCHANGED notDio

\* line 292: one iteration of predcorr_operator(rho, dt, iter_nb)
DioIterate ==
    /\ dio_pc = "simulation"
    /\ dio_iter < iter_nb
    /\ dio_iter' = dio_iter + 1
    /\ UNCHANGED <<dio_dt, dio_final_T, iter_nb, dio_pc>>
    /\ UNCHANGED notDio

\* lines 292-296: the predictor-corrector returns
DioSimulated ==
    /\ dio_pc = "simulation"
    /\ dio_iter >= iter_nb
    /\ dio_pc' = "simulated"
    /\ UNCHANGED <<dio_dt, dio_final_T, iter_nb, dio_iter>>
    /\ UNCHANGED notDio

DioNext == DioTimeParameters \/ DioIterate \/ DioSimulated

(***************************************************************************)
(* Specifications: one per part, the other parts idle.                     *)
(***************************************************************************)
LocInit == LocStart /\ AdvIdle /\ NeuIdle /\ PertIdle /\ QuadIdle
    /\ MatIdle
    /\ BlkIdle
    /\ BcIdle
    /\ FpsIdle
    /\ MaskIdle
    /\ TcIdle
    /\ LcIdle
    /\ SbIdle
    /\ KnIdle
    /\ SvIdle
    /\ DioIdle
SpecLocator == LocInit /\ [][LocNext]_vars

AdvInit == AdvStart /\ LocIdle /\ NeuIdle /\ PertIdle /\ QuadIdle
    /\ MatIdle
    /\ BlkIdle
    /\ BcIdle
    /\ FpsIdle
    /\ MaskIdle
    /\ TcIdle
    /\ LcIdle
    /\ SbIdle
    /\ KnIdle
    /\ SvIdle
    /\ DioIdle
SpecAdvection == AdvInit /\ [][AdvNext]_vars

NeuInit == NeuStart /\ LocIdle /\ AdvIdle /\ PertIdle /\ QuadIdle
    /\ MatIdle
    /\ BlkIdle
    /\ BcIdle
    /\ FpsIdle
    /\ MaskIdle
    /\ TcIdle
    /\ LcIdle
    /\ SbIdle
    /\ KnIdle
    /\ SvIdle
    /\ DioIdle
SpecNeutrals == NeuInit /\ [][NeuNext]_vars

PertInit == PertStart /\ LocIdle /\ AdvIdle /\ NeuIdle /\ QuadIdle
    /\ MatIdle
    /\ BlkIdle
    /\ BcIdle
    /\ FpsIdle
    /\ MaskIdle
    /\ TcIdle
    /\ LcIdle
    /\ SbIdle
    /\ KnIdle
    /\ SvIdle
    /\ DioIdle
SpecPerturb == PertInit /\ [][PertNext]_vars

QuadInit == QuadStart /\ LocIdle /\ AdvIdle /\ NeuIdle /\ PertIdle
    /\ MatIdle
    /\ BlkIdle
    /\ BcIdle
    /\ FpsIdle
    /\ MaskIdle
    /\ TcIdle
    /\ LcIdle
    /\ SbIdle
    /\ KnIdle
    /\ SvIdle
    /\ DioIdle
SpecQuadrature == QuadInit /\ [][QuadNext]_vars

MatInit == MatStart
    /\ LocIdle
    /\ AdvIdle
    /\ NeuIdle
    /\ PertIdle
    /\ QuadIdle
    /\ BlkIdle
    /\ BcIdle
    /\ FpsIdle
    /\ MaskIdle
    /\ TcIdle
    /\ LcIdle
    /\ SbIdle
    /\ KnIdle
    /\ SvIdle
    /\ DioIdle
SpecMatrix == MatInit /\ [][MatNext]_vars

MatAccessInit == MatAccessStart
    /\ LocIdle
    /\ AdvIdle
    /\ NeuIdle
    /\ PertIdle
    /\ QuadIdle
    /\ BlkIdle
    /\ BcIdle
    /\ FpsIdle
    /\ MaskIdle
    /\ TcIdle
    /\ LcIdle
    /\ SbIdle
    /\ KnIdle
    /\ SvIdle
    /\ DioIdle
SpecMatrixAccess == MatAccessInit /\ [][MatAccessNext]_vars

BlkInit == BlkStart
    /\ LocIdle
    /\ AdvIdle
    /\ NeuIdle
    /\ PertIdle
    /\ QuadIdle
    /\ MatIdle
    /\ BcIdle
    /\ FpsIdle
    /\ MaskIdle
    /\ TcIdle
    /\ LcIdle
    /\ SbIdle
    /\ KnIdle
    /\ SvIdle
    /\ DioIdle
SpecBlock == BlkInit /\ [][BlkNext]_vars

BcInit == BcStart
    /\ LocIdle
    /\ AdvIdle
    /\ NeuIdle
    /\ PertIdle
    /\ QuadIdle
    /\ MatIdle
    /\ BlkIdle
    /\ FpsIdle
    /\ MaskIdle
    /\ TcIdle
    /\ LcIdle
    /\ SbIdle
    /\ KnIdle
    /\ SvIdle
    /\ DioIdle
SpecDeepcopy == BcInit /\ [][BcNext]_vars

FpsInit == FpsStart
    /\ LocIdle
    /\ AdvIdle
    /\ NeuIdle
    /\ PertIdle
    /\ QuadIdle
    /\ MatIdle
    /\ BlkIdle
    /\ BcIdle
    /\ MaskIdle
    /\ TcIdle
    /\ LcIdle
    /\ SbIdle
    /\ KnIdle
    /\ SvIdle
    /\ DioIdle
SpecPoisson == FpsInit /\ [][FpsNext]_vars

MaskInit == MaskStart
    /\ LocIdle
    /\ AdvIdle
    /\ NeuIdle
    /\ PertIdle
    /\ QuadIdle
    /\ MatIdle
    /\ BlkIdle
    /\ BcIdle
    /\ FpsIdle
    /\ TcIdle
    /\ LcIdle
    /\ SbIdle
    /\ KnIdle
    /\ SvIdle
    /\ DioIdle
SpecMask == MaskInit /\ [][MaskNext]_vars

TcInit == TcStart
    /\ LocIdle
    /\ AdvIdle
    /\ NeuIdle
    /\ PertIdle
    /\ QuadIdle
    /\ MatIdle
    /\ BlkIdle
    /\ BcIdle
    /\ FpsIdle
    /\ MaskIdle
    /\ LcIdle
    /\ SbIdle
    /\ KnIdle
    /\ SvIdle
    /\ DioIdle
SpecCollisionTest == TcInit /\ [][TcNext]_vars

LcInit == LcStart
    /\ LocIdle
    /\ AdvIdle
    /\ NeuIdle
    /\ PertIdle
    /\ QuadIdle
    /\ MatIdle
    /\ BlkIdle
    /\ BcIdle
    /\ FpsIdle
    /\ MaskIdle
    /\ TcIdle
    /\ SbIdle
    /\ KnIdle
    /\ SvIdle
    /\ DioIdle
SpecLifecycle == LcInit /\ [][LcNext]_vars

SbInit == SbStart
    /\ LocIdle
    /\ AdvIdle
    /\ NeuIdle
    /\ PertIdle
    /\ QuadIdle
    /\ MatIdle
    /\ BlkIdle
    /\ BcIdle
    /\ FpsIdle
    /\ MaskIdle
    /\ TcIdle
    /\ LcIdle
    /\ KnIdle
    /\ SvIdle
    /\ DioIdle
SpecSplineBuilder == SbInit /\ [][SbNext]_vars

KnInit == KnStart
    /\ LocIdle
    /\ AdvIdle
    /\ NeuIdle
    /\ PertIdle
    /\ QuadIdle
    /\ MatIdle
    /\ BlkIdle
    /\ BcIdle
    /\ FpsIdle
    /\ MaskIdle
    /\ TcIdle
    /\ LcIdle
    /\ SbIdle
    /\ SvIdle
    /\ DioIdle
SpecKernels == KnInit /\ [][KnNext]_vars

SvInit == SvStart
    /\ LocIdle
    /\ AdvIdle
    /\ NeuIdle
    /\ PertIdle
    /\ QuadIdle
    /\ MatIdle
    /\ BlkIdle
    /\ BcIdle
    /\ FpsIdle
    /\ MaskIdle
    /\ TcIdle
    /\ LcIdle
    /\ SbIdle
    /\ KnIdle
    /\ DioIdle
SpecSolveBounds == SvInit /\ [][SvNext]_vars

DioInit == DioStart
    /\ LocIdle
    /\ AdvIdle
    /\ NeuIdle
    /\ PertIdle
    /\ QuadIdle
    /\ MatIdle
    /\ BlkIdle
    /\ BcIdle
    /\ FpsIdle
    /\ MaskIdle
    /\ TcIdle
    /\ LcIdle
    /\ SbIdle
    /\ KnIdle
    /\ SvIdle
SpecDiocotron == DioInit /\ [][DioNext]_vars

(***************************************************************************)
(* Claims about OnionPatchLocator.                                         *)
(***************************************************************************)
\* the patches are exactly contiguous
Contiguous == \A i \in 1..(n_patches - 1) : r_min[i + 1] = r_max[i]

\* the queried radius is none of the stored boundary radii
OffBoundary == \A j \in 0..n_patches : r # Radii(j)

\* C1: with contiguous patches, a radius equal to the boundary shared by
\* patches i and i + 1 is resolved to the inner patch i, and a radius equal
\* to the outermost boundary is resolved to the last patch.
C1_BoundaryResolvesInner ==
    (loc_pc = "returned" /\ Contiguous) =>
        /\ \A i \in 0..(n_patches - 2) : r = Radii(i + 1) => loc_result = i
        /\ r = Radii(n_patches) => loc_result = n_patches - 1

\* C2: for a radius that is no stored boundary radius the dichotomy returns
\* what a linear scan returns: patch i when radii[i] < r < radii[i+1], the
\* outside_domain sentinel beyond the outermost radius; and it does return
\* (it never runs more loop bodies than there are patches).
C2_SearchEqualsLinearScan ==
    (loc_pc \in {"loop", "returned"} /\ OffBoundary) =>
        /\ loc_iter <= n_patches
        /\ loc_pc = "returned" =>
              /\ \A i \in 0..(n_patches - 1) :
                    (Radii(i) < r /\ r < Radii(i + 1)) => loc_result = i
              /\ r > Radii(n_patches) => loc_result = outside_domain

C2_Witness ==
    /\ loc_pc = "returned" /\ OffBoundary /\ n_patches = 3
    /\ loc_iter = 2 /\ loc_result = 2
    /\ Radii(2) < r /\ r < Radii(3)

\* C3: construction throws std::invalid_argument (ordering error) if and
\* only if some adjacent pair of patches has |r_min[i+1] - r_max[i]| beyond
\* the tolerance; otherwise it succeeds and stores the n_patches + 1 radii.
C3_ThrowsIffGapBeyondTol ==
    loc_pc # "construct" =>
        LET beyond == \E i \in 1..(n_patches - 1) :
                          \/ r_min[i + 1] - r_max[i] > Tol
                          \/ r_max[i] - r_min[i + 1] > Tol
        IN  /\ beyond <=> loc_pc = "threw"
            /\ loc_pc = "threw" <=>
                  loc_exception = "invalid_argument: The patches listed in PatchOrdering must be ordered."
            /\ loc_pc # "threw" => Len(m_radii) = n_patches + 1

C3_Witness ==
    /\ loc_pc = "threw" /\ n_patches = 3
    /\ r_min[2] - r_max[1] = Tol
    /\ r_min[3] - r_max[2] = -(Tol + 1)

(***************************************************************************)
(* Claims about the advection test harness.                                *)
(***************************************************************************)
\* the two invocations main() accepts
ConfigInvocation == Len(adv_argv) = 2
DumpInvocation == Len(adv_argv) = 3 /\ adv_argv[2] = "--dump-config"

\* C4: every invocation that is neither one configuration path nor
\* --dump-config <path> prints the usage line to standard error and exits
\* with a failure status, reads no configuration value and never simulates.
C4_OtherInvocationsPrintUsage ==
    (adv_pc # "idle" /\ ~ConfigInvocation /\ ~DumpInvocation) =>
        /\ adv_conf_reads = {}
        /\ ~adv_simulated
        /\ adv_pc = "exit" =>
              /\ adv_cerr = <<UsageLine(adv_argv)>>
              /\ adv_status = "EXIT_FAILURE"

\* C5: invoked as --dump-config <path>, main() writes the default
\* configuration text to <path> and exits with status 0; nothing is parsed,
\* no directory and no r_knots.txt is created, simulate is never called.
C5_DumpConfigOnly ==
    (adv_pc # "idle" /\ DumpInvocation) =>
        /\ conf_voicexx = "uninit"
        /\ adv_conf_reads = {}
        /\ ~adv_simulated
        /\ adv_cerr = <<>>
        /\ adv_fs \subseteq {<<"file", adv_argv[3], params_yaml>>}
        /\ adv_pc \in {"args", "exit"}
        /\ adv_pc = "exit" =>
              /\ adv_fs = {<<"file", adv_argv[3], params_yaml>>}
              /\ adv_status = "EXIT_SUCCESS"

C5_Witness ==
    /\ DumpInvocation /\ adv_pc = "exit"
    /\ adv_argv[3] = "out.yaml"
    /\ <<"file", "out.yaml", params_yaml>> \in adv_fs

(***************************************************************************)
(* Claims about the neutrals executable.                                   *)
(***************************************************************************)
UnknownKrookType(k) == neu_conf.Krook[k].type \notin {"source", "sink"}
UnknownKrookName(k) == neu_conf.Krook[k].name \notin {"constant", "adaptive"}

\* the operators built from Krook entry k (one-based)
BuiltFromEntry(k) ==
    {i \in 1..Len(krook_source_constant_vector) :
        krook_source_constant_vector[i].entry = k - 1}
    \cup {i \in 1..Len(krook_source_adaptive_vector) :
        krook_source_adaptive_vector[i].entry = k - 1}

\* C6: a Krook entry whose type is neither source nor sink is a fatal
\* configuration error: once the loop has handled it main() has thrown, no
\* operator was built for it, and the simulation loop never runs.
C6_UnknownTypeIsFatal ==
    \A k \in 1..Len(neu_conf.Krook) :
        UnknownKrookType(k) =>
            /\ BuiltFromEntry(k) = {}
            /\ ik >= k => neu_pc = "threw"
            /\ neu_pc \notin {"operators", "predcorr", "exit"}

\* C7: if some Krook entry has a name that is neither constant nor adaptive,
\* main() ends with std::invalid_argument naming the allowed values, thrown
\* at the first such entry, and the predictor-corrector is never started;
\* nothing else makes the loop throw.
C7_UnknownNameThrows ==
    /\ neu_pc = "threw" =>
          /\ neu_exception = InvalidKrookName
          /\ ik < Len(neu_conf.Krook)
          /\ UnknownKrookName(ik + 1)
    /\ (neu_pc # "idle" /\ \E k \in 1..Len(neu_conf.Krook) : UnknownKrookName(k)) =>
          /\ neu_pc \in {"krook", "threw"}
          /\ neu_steps = 0
          /\ \A k \in 1..ik : ~UnknownKrookName(k)
          /\ Len(rhs_operators) = ik

C7_Witness ==
    /\ neu_pc = "threw" /\ ik = 1
    /\ Len(neu_conf.Krook) = 2
    /\ neu_conf.Krook[1].name = "adaptive"
    /\ neu_conf.Krook[2].name = "relaxed"
    /\ neu_conf.nbiter = 1

(***************************************************************************)
(* Claims about SingleModePerturbInitialization.                           *)
(***************************************************************************)
\* f_eq(s, iv) * (1 + A_s * cos(k_s * x_ix)) with the floor, all of species s
OwnPerturbedValue(s, ix, iv) ==
    LET v == maxw_values[s][iv]
                * (1 + m_init_perturb_amplitude[s]
                          * CosQuarterTurns(m_init_perturb_mode[s] * ix))
    IN  IF v < 1 THEN 1 ELSE v

\* C8: on return, for every species s, x index and velocity index the stored
\* value is f_eq(s,iv) * (1 + A_s cos(k_s x)) with species s's own amplitude
\* and mode, floored to 1e-60.
C8_EachSpeciesOwnPerturbation ==
    pert_pc = "returned" =>
        \A s \in 1..Len(m_init_perturb_mode) : \A ix \in GridX : \A iv \in GridVx :
            allfdistribu[s][ix][iv] = OwnPerturbedValue(s, ix, iv)

(***************************************************************************)
(* Claims about trapezoid_quadrature_coefficients_1d.                      *)
(***************************************************************************)
RECURSIVE SumTo(_, _)
SumTo(f, n) == IF n = 0 THEN 0 ELSE SumTo(f, n - 1) + f[n]

QuadLast == quad_coords[Len(quad_coords)]
QuadFirst == quad_coords[1]

\* C9: on a periodic axis the weights sum to the full periodic length: the
\* distance from the first to the last point plus the wrap-around segment.
C9_PeriodicSumIsPeriod ==
    (quad_pc = "returned" /\ quad_periodic) =>
        SumTo(coefficients, Len(coefficients)) = (QuadLast - QuadFirst) + quad_wrap

\* C10: on a non-periodic axis an interior weight is half the distance
\* between the two neighbours, each boundary weight is half the adjacent
\* distance, and the weights sum to the distance from first to last point.
C10_NonPeriodicWeights ==
    (quad_pc = "returned" /\ ~quad_periodic) =>
        LET n == Len(quad_coords)
        IN  /\ \A i \in 2..(n - 1) :
                  2 * coefficients[i] = quad_coords[i + 1] - quad_coords[i - 1]
            /\ 2 * coefficients[1] = quad_coords[2] - quad_coords[1]
            /\ 2 * coefficients[n] = quad_coords[n] - quad_coords[n - 1]
            /\ SumTo(coefficients, n) = QuadLast - QuadFirst

C10_Witness ==
    /\ quad_pc = "returned" /\ ~quad_periodic
    /\ quad_coords = <<0, 2, 8, 12>>
    /\ coefficients = <<1, 4, 5, 2>>


(***************************************************************************)
(* Claims about Matrix_Corner_Block.                                       *)
(***************************************************************************)
\* the matrix the caller filled in, as fractions
FullMatrix == [i \in 0..(mat_n - 1) |-> [j \in 0..(mat_n - 1) |-> Num(mat_A[i][j])]]

\* the system the caller set up has exactly one solution
RegularSystem == mat_n > 0 /\ Det(FullMatrix, mat_n) # Num(0)

\* C11: after the fill with set_element and factorize(), solve_inplace(b)
\* leaves in b the solution x of A x = b that a direct dense solve of the
\* full n x n matrix A gives.
C11_SolveEqualsDenseSolve ==
    (mat_pc = "solved" /\ RegularSystem) =>
        bx = DenseSolve(FullMatrix, mat_n, [i \in 0..(mat_n - 1) |-> Num(mat_b[i])])


(***************************************************************************)
(* Claims about Block.                                                     *)
(***************************************************************************)
\* the live Block objects whose pointer is buffer p
OwnersOf(p) == {x \in BlockIds : blk_live[x] /\ blk_data[x] = p}

\* C12: every allocated buffer is owned by exactly one live Block until it is
\* released, is released at most once, and no live Block refers to a
\* released buffer.
C12_SingleOwnerSingleRelease ==
    \A p \in heap_allocated :
        /\ heap_releases[p] <= 1
        /\ heap_releases[p] = 0 => Cardinality(OwnersOf(p)) = 1
        /\ heap_releases[p] = 1 => OwnersOf(p) = {}


(***************************************************************************)
(* Claims about deepcopy.                                                  *)
(***************************************************************************)
\* block(ii, jj) and the copy's element of the same coordinates
SrcAt(ii, jj) == block_raw[Offset(SrcOrder(bc_test), ii, jj)]
DstAt(ii, jj) == block2_raw[Offset(DstOrder(bc_test), ii, jj)]

RhoCoefficients == FourierTransform(rho, fps_n)

\* C14: after the solve in Fourier space the coefficient of the
\* zero-frequency mode is exactly 0 and every other coefficient is the
\* Fourier coefficient of the charge density divided once by k^2, with
\* k = 2 pi times the frequency of the mode.
C14_ZeroModeAndDivision ==
    fps_pc = "returned" =>
        \A f \in 0..(fps_n - 1) :
            IF Frequency(f, fps_n) = 0
            THEN complex_Phi_fx[f] = CZero
            ELSE complex_Phi_fx[f] =
                     <<Over(RhoCoefficients[f][1], KxSquared(f, fps_n)),
                       Over(RhoCoefficients[f][2], KxSquared(f, fps_n))>>

C14_Witness ==
    /\ fps_pc = "returned"
    /\ fps_n = 4
    /\ RhoCoefficients[0] # CZero
    /\ RhoCoefficients[2] # CZero
    /\ complex_Phi_fx[2] = CScale(RhoCoefficients[2], Frac(1, 4))


\* all density fields of the size of fdistribu
DensityFields == [0..(fps_nsp - 1) -> [0..(fps_n - 1) -> DensityValues]]

\* the potential operator() returns for the densities dens
PotentialFor(dens) ==
    PotentialOf([ix \in 0..(fps_n - 1) |-> RhoAt(dens, fps_nsp, ix)], fps_n)

\* the charge density without the constant background of line 57
RhoWithoutBackground ==
    [ix \in 0..(fps_n - 1) |-> Minus(rho[ix], Num(Charge(ielec)))]

\* C15: the potential returned for a distribution that is the sum of two
\* distributions is the sum of the potentials returned for each of them, and
\* it is the potential of the charge density without the constant
\* background charge.
C15_Superposition ==
    fps_pc = "returned" =>
        /\ \A d1, d2 \in DensityFields :
               (\A isp \in 0..(fps_nsp - 1), ix \in 0..(fps_n - 1) :
                    d1[isp][ix] + d2[isp][ix] = fps_dens[isp][ix])
               => \A ix \in 0..(fps_n - 1) :
                      electric_potential[ix] =
                          Plus(PotentialFor(d1)[ix], PotentialFor(d2)[ix])
        /\ electric_potential = PotentialOf(RhoWithoutBackground, fps_n)

C15_Witness ==
    /\ fps_pc = "returned"
    /\ fps_n = 4
    /\ fps_dens[0][0] = 1
    /\ fps_dens[0][1] = 1
    /\ fps_dens[0][2] = 0
    /\ electric_potential[0] # electric_potential[2]


EventsNamed(events, name) ==
    {i \in 1..Len(events) : events[i].name = name}

\* this step triggers the event of the given name
Triggers(name) ==
    /\ Len(tc_events') = Len(tc_events) + 1
    /\ tc_events'[Len(tc_events')].name = name

\* C17: checkpoint I/O ordering.  A step that constructs one of the eight
\* arrays finds its extent already read and gives the array that extent;
\* a step that reads values (read_grid, read_profiles, read_fdistribu)
\* finds the arrays it fills allocated; the collision step finds the
\* distribution function read; and write_restart happens once, carries the
\* complete named set, and hands over as fdistribu the collided device
\* result, copied back to the host buffer.
C17_CheckpointOrdering ==
    [][ /\ \A name \in VectorNames :
              (tc_vectors[name].state = "none" /\ tc_vectors'[name].state # "none")
                  => /\ EventsNamed(tc_events, "read_grid_extents") # {}
                     /\ tc_extents[name] = tc_file.extents[name]
                     /\ Len(tc_vectors'[name].values) = tc_file.extents[name]
        /\ Triggers("read_grid")
              => \A name \in VectorNames : tc_vectors[name].state = "allocated"
        /\ Triggers("read_profiles")
              => \A name \in MomentNames : tc_moments[name].values = <<"uninit">>
        /\ Triggers("read_fdistribu")
              => allfdistribu_host.values = <<"uninit">>
        /\ tc_collisions' # tc_collisions
              => /\ EventsNamed(tc_events, "read_fdistribu") # {}
                 /\ allfdistribu_dev = <<"file", "fdistribu">>
        /\ Triggers("write_restart")
              => /\ EventsNamed(tc_events, "write_restart") = {}
                 /\ tc_events'[Len(tc_events')].carries = WriteRestartNames
                 /\ tc_collisions = 1
                 /\ tc_events'[Len(tc_events')].data["fdistribu"]
                        = <<"collided", <<"file", "fdistribu">>, tc_conf.deltat>>
                 /\ allfdistribu_host.values = allfdistribu_dev
      ]_vars

\* a run that reached the end with a device mirror distinct from the host
\* field, having triggered write_restart after the four read events
C17_Witness ==
    /\ tc_pc = "exit"
    /\ ~tc_alias
    /\ Len(tc_events) = 6
    /\ tc_events[6].name = "write_restart"
    /\ tc_events[6].data["fdistribu"][1] = "collided"

\* C18: at the end of a run the collision operator has been applied exactly
\* once, whatever nbiter and iter_start are; the checkpoint written has
\* iter_saved = iter_start + 1 and time_saved = time read + deltat; and the
\* grids, species, charges, masses and the three moment fields are written
\* with the values the file gave.
C18_OneStepCheckpoint ==
    tc_pc = "exit" =>
        LET written == tc_events[Len(tc_events)].data
        IN  /\ tc_collisions = 1
            /\ written["iter_saved"] = tc_iter_start + 1
            /\ written["time_saved"] = tc_file.time + tc_conf.deltat
            /\ \A name \in VectorNames :
                   written[name] = FileValues(name, tc_file.extents[name])
            /\ \A name \in MomentNames : written[name] = <<"file", name>>


(***************************************************************************)
(* C19: process-wide resources of the executables                          *)
(***************************************************************************)
\* the resources the property is about: PDI and its configuration tree,
\* the Kokkos execution scope, the DDC scope
ProcessWide == {"conf_pdi", "PDI", "Kokkos", "DDC"}

\* the resources of ProcessWide in the order the log has them under op
LoggedOrder(log, op) ==
    LET Selected(e) == e[1] = op /\ e[2] \in ProcessWide
        chosen == SelectSeq(log, Selected)
    IN  [i \in 1..Len(chosen) |-> chosen[i][2]]

\* main() has returned
Returned == lc_exe \in Executables /\ lc_pc = Len(Program(lc_exe)) + 1

\* each resource of ProcessWide is set up once and torn down once
OnceEach ==
    \A res \in ProcessWide :
        /\ Cardinality({i \in 1..Len(lc_log) : lc_log[i] = <<"init", res>>}) = 1
        /\ Cardinality({i \in 1..Len(lc_log) : lc_log[i] = <<"teardown", res>>}) = 1

\* C19: when a run has succeeded, every process-wide resource has been
\* initialised exactly once and torn down exactly once, and the teardowns
\* are in the reverse of the order of the initialisations.
C19_NestedLifecycle ==
    Returned =>
        LET inits == LoggedOrder(lc_log, "init")
            downs == LoggedOrder(lc_log, "teardown")
        IN  /\ OnceEach
            /\ Len(downs) = Len(inits)
            /\ \A i \in 1..Len(downs) : downs[i] = inits[Len(inits) + 1 - i]


(***************************************************************************)
(* C20: termination of the search loop of OnionPatchLocator::operator()    *)
(***************************************************************************)
\* C20: every iteration of the binary search that does not return strictly
\* shrinks the interval [patch_index_min, patch_index_max], for every
\* radius and every number of patches.
C20_LoopShrinksInterval ==
    [][ (loc_pc = "loop" /\ loc_pc' = "loop")
            => (patch_index_max' - patch_index_min'
                    < patch_index_max - patch_index_min) ]_vars


(***************************************************************************)
(* C21: order of the steps of Matrix_Corner_Block::factorize()             *)
(***************************************************************************)
\* the blocks as the caller's set_element calls leave them
InputQ == [i \in 0..(nb - 1) |-> [j \in 0..(nb - 1) |-> Num(mat_A[i][j])]]
InputDelta ==
    [i \in 0..(mat_k - 1) |-> [j \in 0..(mat_k - 1) |-> Num(mat_A[nb + i][nb + j])]]
InputGamma ==
    [i \in 0..(mat_k - 1) |-> [j \in 0..(nb - 1) |-> Num(mat_A[nb + i][j])]]
InputLambda ==
    [i \in 0..(nb - 1) |-> [j \in 0..(mat_k - 1) |-> Num(mat_A[i][nb + j])]]

\* Q^-1 applied to the coupling block as set by the caller
SolvedGamma == [row \in 0..(mat_k - 1) |-> DenseSolve(InputQ, nb, InputGamma[row])]

\* delta(j, i) - sum over l of lambda(l, i) * Abm_1_gamma(j, l)
SchurComplement ==
    [j \in 0..(mat_k - 1) |-> [i \in 0..(mat_k - 1) |->
        Minus(InputDelta[j][i],
              FracSum([l \in 0..(nb - 1) |->
                          Times(InputLambda[l][i], SolvedGamma[j][l])], nb))]]

Positions == (0..(mat_n - 1)) \X (0..(mat_n - 1))

\* every position is routed to a cell inside its block and no two positions
\* to the same cell
RoutingOneToOne ==
    /\ \A p \in Positions : InsideBlock(Route(p[1], p[2]))
    /\ \A p, q \in Positions : Route(p[1], p[2]) = Route(q[1], q[2]) => p = q

\* the four blocks
Blocks ==
    [q_block |-> q_block, delta |-> delta, Abm_1_gamma |-> Abm_1_gamma,
     lambda |-> lambda]

\* what position p reads as, given the blocks
ReadIn(blocks, p) ==
    LET cell == Route(p[1], p[2]) IN blocks[cell[1]][cell[2]][cell[3]]

\* a step that is a set_element(i, j, a) inside the matrix: afterwards
\* get_element(i, j) is a and every other position reads as before
SetThenGet ==
    (/\ mat_cursor' # mat_cursor
     /\ mat_last'.op = "set"
     /\ <<mat_last'.i, mat_last'.j>> \in Positions)
        => /\ mat_last'.outcome = "done"
           /\ ReadIn(Blocks', <<mat_last'.i, mat_last'.j>>) = mat_last'.a
           /\ \A p \in Positions :
                  p # <<mat_last'.i, mat_last'.j>>
                      => ReadIn(Blocks', p) = ReadIn(Blocks, p)

\* C22: before factorization, for every n, every 0 <= k <= n and every
\* position (i, j) of the matrix, get_element(i, j) after
\* set_element(i, j, a) returns a and every other position returns what it
\* returned before; every position is routed to one cell of one of the
\* four blocks and no two positions share a cell.
C22_SetGetRouting == [][RoutingOneToOne /\ SetThenGet]_vars

\* a second set_element, into the lower-left coupling block of a 3 x 3
\* matrix, after one into the upper-right coupling block
C22_Witness ==
    /\ mat_pc = "access"
    /\ mat_n = 3
    /\ mat_k = 1
    /\ mat_cursor = 2
    /\ mat_last.op = "set"
    /\ Route(mat_last.i, mat_last.j)[1] = "Abm_1_gamma"
    /\ GetElement(mat_last.i, mat_last.j) = mat_last.a
    /\ \E i \in 0..(nb - 1) : lambda[i][0] # Num(0) /\ lambda[i][0] # mat_last.a

\* C23: in a debug build a call of get_element or set_element whose row or
\* column is outside [0, n) fails an assertion, so that it reaches no block
\* access.
C23_BoundsAsserted ==
    (/\ mat_pc \in {"access", "stopped"}
     /\ mat_last.op \in {"get", "set"}
     /\ <<mat_last.i, mat_last.j>> \notin Positions)
        => mat_last.outcome = "assertion failed"


(***************************************************************************)
(* C24, C25: SplineBuilder2D::operator()                                   *)
(***************************************************************************)
\* each boundary-derivative array has a value iff its boundary is Hermite,
\* each mixed-derivative array iff both boundaries of its corner are
ArgumentsAsDocumented ==
    /\ HasValue("derivs_xmin") = Hermite(sb_bc.BcXmin1)
    /\ HasValue("derivs_xmax") = Hermite(sb_bc.BcXmax1)
    /\ HasValue("derivs_ymin") = Hermite(sb_bc.BcXmin2)
    /\ HasValue("derivs_ymax") = Hermite(sb_bc.BcXmax2)
    /\ HasValue("mixed_derivs_xmin_ymin")
           = (Hermite(sb_bc.BcXmin1) /\ Hermite(sb_bc.BcXmin2))
    /\ HasValue("mixed_derivs_xmax_ymin")
           = (Hermite(sb_bc.BcXmax1) /\ Hermite(sb_bc.BcXmin2))
    /\ HasValue("mixed_derivs_xmin_ymax")
           = (Hermite(sb_bc.BcXmin1) /\ Hermite(sb_bc.BcXmax2))
    /\ HasValue("mixed_derivs_xmax_ymax")
           = (Hermite(sb_bc.BcXmax1) /\ Hermite(sb_bc.BcXmax2))

\* C24: for every combination of the four boundary conditions the entry
\* assertions accept a call exactly when the optional arguments are
\* supplied as documented, and no optional argument without a value is
\* dereferenced by the body.
C24_ArgumentPreconditions ==
    /\ sb_pc \notin {"idle", "call", "entry"}
          => ((sb_pc # "assertion failed") = ArgumentsAsDocumented)
    /\ sb_pc # "empty optional dereferenced"

\* every (index 1, index 2) of the array whose index 1 is i
Line1(i) == {p \in DOMAIN sb_spline : p[1] = i}

\* C25: the first pass writes every dimension-2 index below nbasis2 exactly
\* once before the second pass starts; the second pass solves each of the
\* nbasis1 dimension-1 indices; on return, when dimension 1 is periodic,
\* coefficient (nbasis1 + i, j) equals coefficient (i, j) for i < degree1.
C25_PassStructure ==
    /\ sb_pc \notin {"idle", "call"}
          => \A row \in DOMAIN sb_writes : sb_writes[row] <= 1
    /\ sb_pc \in {"second", "copy", "returned"}
          => \A row \in 0..(Nbasis(2) - 1) : sb_writes[row] = 1
    /\ sb_pc = "second"
          => \A i \in 0..(Nbasis(1) - 1) : \A p \in Line1(i) :
                 sb_spline[p][1] = IF i < sb_i THEN "second pass"
                                   ELSE IF p[2] < Nbasis(2) THEN "first pass"
                                   ELSE "uninitialised"
    /\ sb_pc \in {"copy", "returned"}
          => \A i \in 0..(Nbasis(1) - 1) : \A p \in Line1(i) :
                 sb_spline[p] = <<"second pass", i, SplineCoefficient(2, p[2])>>
    /\ (sb_pc = "returned" /\ IsPeriodic(1))
          => \A i \in 0..(sb_degree[1] - 1) : \A j \in 0..(BasisSize(2) - 1) :
                 sb_spline[<<Nbasis(1) + i, j>>] = sb_spline[<<i, j>>]

\* a call that ran the lower, middle and upper parts of the first pass, the
\* second pass and the periodic copy
C25_Witness ==
    /\ sb_pc = "returned"
    /\ IsPeriodic(1)
    /\ Hermite(sb_bc.BcXmin2)
    /\ Hermite(sb_bc.BcXmax2)
    /\ sb_writes[0] = 1
    /\ sb_writes[Nbasis(2) - 1] = 1
    /\ sb_spline[<<Nbasis(1), 0>>][1] = "second pass"


(***************************************************************************)
(* Neutrals executable: the composition of the right-hand-side operator    *)
(* list, and the lifetime of the operators it refers to.                   *)
(***************************************************************************)
\* how many of the first i Krook entries of the configuration carry the name
KrookCount(list, i, name) == Cardinality({m \in 1..i : list[m].name = name})

\* the operator the i-th configured Krook entry stands for
ConfiguredKrook(list, i) ==
    IF list[i].name = "constant"
    THEN <<"krook_source_constant_vector", KrookCount(list, i, "constant")>>
    ELSE IF list[i].name = "adaptive"
    THEN <<"krook_source_adaptive_vector", KrookCount(list, i, "adaptive")>>
    ELSE <<"no operator", 0>>

ConfiguredOperators(conf) ==
    [i \in 1..Len(conf.Krook) |-> ConfiguredKrook(conf.Krook, i)]
    \o <<<<"rhs_kinetic_source", 1>>, <<"collisions_intra", 1>>>>
    \o (IF conf.enable_inter THEN <<<<"collisions_inter", 1>>>> ELSE <<>>)

\* the time loop has been reached
HandedToSolver(pc) == pc \in {"predcorr", "exit"}

\* C26: the operator list handed to the split right-hand-side solver holds
\* one Krook operator per configured entry in configuration order, then the
\* kinetic source, then the intra-species collisions, then the inter-species
\* collisions exactly when enable_inter is true; it is complete when the time
\* loop starts and no step of the time loop changes it.
C26_OperatorListOrder ==
    [][ /\ HandedToSolver(neu_pc') => rhs_operators' = ConfiguredOperators(neu_conf')
        /\ HandedToSolver(neu_pc) => rhs_operators' = rhs_operators ]_vars

C26_Witness ==
    /\ neu_pc = "predcorr"
    /\ neu_steps = 1
    /\ neu_conf.enable_inter
    /\ Len(neu_conf.Krook) = 2
    /\ neu_conf.Krook[1].name = "adaptive"
    /\ neu_conf.Krook[2].name = "constant"
    /\ Len(rhs_operators) = 5


\* the i-th reference of rhs_operators designates an operator that is alive:
\* a Krook operator is alive in the allocation its vector holds now
Live(i) ==
    rhs_operators[i][1] \in KrookVectors
        => neu_target[i] = neu_buffer[rhs_operators[i][1]]

\* C28: when the predictor-corrector is invoked every reference stored in
\* rhs_operators designates a live operator; appending to one of the Krook
\* vectors invalidates no reference stored earlier.
C28_OperatorsLive ==
    neu_pc = "predcorr" => \A i \in 1..Len(rhs_operators) : Live(i)


(***************************************************************************)
(* Independence of the iterations of the parallel kernels.                 *)
(***************************************************************************)
\* two accesses of different iterations of one kernel
SameKernelPairs ==
    {p \in kn_log \X kn_log : p[1].kernel = p[2].kernel /\ p[1].it # p[2].it}

\* writes of the interior kernel against writes of the boundary kernel
InteriorBoundaryPairs ==
    {p \in kn_log \X kn_log :
        /\ kn_case.exe = "trapezoid"
        /\ p[1].kernel = 1 /\ p[2].kernel = 2
        /\ p[1].mode = "write" /\ p[2].mode = "write"}

\* what the function returns when its iterations run in index order
SequentialResult(case) ==
    IF case.exe = "trapezoid"
    THEN [e \in DOMAIN KernelMemory(case) |->
            IF e[3] = 1 THEN FrontCoefficient(case.coords, case.periodic)
            ELSE IF e[3] = case.n THEN BackCoefficient(case.coords, case.periodic)
            ELSE InteriorCoefficient(case.coords, e[3])]
    ELSE [e \in DOMAIN KernelMemory(case) |->
            IF e[1] = "allfequilibrium" THEN TwoMaxwellian(e[2], e[3])
            ELSE TwoMaxwellian(case.nsp, e[3])]

\* C27: no iteration of a kernel reads or writes an element that another
\* iteration of the same kernel writes, the interior and the boundary kernel
\* of the trapezoid coefficients write disjoint elements, and whatever the
\* order of the iterations the function returns the same arrays.
C27_KernelIndependence ==
    /\ \A p \in SameKernelPairs : p[1].mode = "write" => p[1].elem # p[2].elem
    /\ \A p \in InteriorBoundaryPairs : p[1].elem # p[2].elem
    /\ kn_pc = "returned" => kn_mem = SequentialResult(kn_case)

C27_Witness ==
    /\ kn_pc = "returned"
    /\ kn_case.exe = "bumpontail"
    /\ kn_case.nsp = 2
    /\ Cardinality(kn_log) = 12


(***************************************************************************)
(* Matrix_Corner_Block: the solves index inside the extents.               *)
(***************************************************************************)
\* C29: for every n > 0 and 0 <= k <= n the three solves index u only in
\* its nb rows, v only in its k rows, Abm_1_gamma only inside k x nb and
\* lambda only inside nb x k.
C29_SolvesInBounds == \A a \in sv_access : InExtents(sv_call, a)


(***************************************************************************)
(* Diocotron executable: the number of iterations.                         *)
(***************************************************************************)
\* the whole timesteps of length dt that fit in final_T
WholeSteps(final_T, dt) == final_T \div dt

\* C30: the number of predictor-corrector iterations run equals
\* floor(final_T / delta_t), for every positive delta_t and non-negative
\* final_T.
C30_IterationCount ==
    dio_pc = "simulated" => dio_iter = WholeSteps(dio_final_T, dio_dt)

=============================================================================
